---- MODULE Spec2Model ----
(***************************************************************************)
(* Streaming chat session engine of the 4Sense plugin (src/src/main.ts):   *)
(* ChatModal.sendMessage / Stop, callChatApiStream, callChatApiWebSocket,  *)
(* callChatApi (HTTP fallback) and the typing-reveal scheduler; the chat   *)
(* log store (appendChatLog, parseChatLog, writeChatLog), the snapshot     *)
(* tracker (getSnapshotState), the open-chat command (openChatForFolder)   *)
(* and the artifact extraction (extractArtifactPaths).                     *)
(*                                                                         *)
(* Texts are TLA+ strings (sequences of characters).  One step of the      *)
(* model is one macrotask of the single-threaded host: an event handler    *)
(* (click, socket event, timer, I/O completion) together with the promise  *)
(* continuations (microtasks) it makes runnable, up to the next await on   *)
(* real I/O.                                                               *)
(***************************************************************************)
EXTENDS Integers, Sequences, FiniteSets, TLC

(***************************************************************************)
(* Bounds of the model.                                                    *)
(***************************************************************************)
MaxSends == 2      \* sendMessage invocations in one session
MaxFrames == 2     \* inbound units that arrive in one session, over all sockets
MaxTicks == 2      \* firings of the typing interval in one session
MaxBacklog == 45   \* length of the text received before the reveal starts
MaxMtime == 2      \* modification times of the files of a folder: 1..MaxMtime
MaxOpens == 2      \* invocations of the open-chat command
MaxAppends == 1    \* entries that the modals append to the chat log through onLog
MaxLines == 3      \* lines of a response text given to the artifact extraction

Invocations == 1..MaxSends

(***************************************************************************)
(* Program constants.                                                      *)
(***************************************************************************)
STREAM_TYPING_BASE_STEP == 2
STREAM_TYPING_CATCHUP_WINDOW == 20
NORMAL_CLOSURE == 1000
NO_CODE == 1005    \* socket.close() without a code: "no status received"

CHAT_SYSTEM_PROMPT ==
    "You are a helpful assistant. Use the provided folder summary as context."

(***************************************************************************)
(* String helpers: String.prototype.trim / toLowerCase / includes.         *)
(***************************************************************************)
IsSpace(c) == c \in {" ", "\n", "\t", "\r"}

RECURSIVE TrimStart(_)
TrimStart(s) ==
    IF Len(s) = 0 THEN s
    ELSE IF IsSpace(SubSeq(s, 1, 1)) THEN TrimStart(SubSeq(s, 2, Len(s)))
    ELSE s

RECURSIVE TrimEnd(_)
TrimEnd(s) ==
    IF Len(s) = 0 THEN s
    ELSE IF IsSpace(SubSeq(s, Len(s), Len(s))) THEN TrimEnd(SubSeq(s, 1, Len(s) - 1))
    ELSE s

Trim(s) == TrimEnd(TrimStart(s))

UpperChars == "ABCDEFGHIJKLMNOPQRSTUVWXYZ"
LowerChars == "abcdefghijklmnopqrstuvwxyz"

LowerChar(c) ==
    IF \E k \in 1..26 : SubSeq(UpperChars, k, k) = c
    THEN LET k == CHOOSE j \in 1..26 : SubSeq(UpperChars, j, j) = c
         IN  SubSeq(LowerChars, k, k)
    ELSE c

RECURSIVE ToLowerCase(_)
ToLowerCase(s) ==
    IF Len(s) = 0 THEN s
    ELSE LowerChar(SubSeq(s, 1, 1)) \o ToLowerCase(SubSeq(s, 2, Len(s)))

Includes(s, t) ==
    \E k \in 1..(Len(s) - Len(t) + 1) : SubSeq(s, k, k + Len(t) - 1) = t

Slice(s, n) == SubSeq(s, 1, IF n < Len(s) THEN n ELSE Len(s))

CeilDiv(a, b) == (a + b - 1) \div b
Max(a, b) == IF a >= b THEN a ELSE b
Min(a, b) == IF a <= b THEN a ELSE b

(***************************************************************************)
(* JSON values as the decoder sees them: a field is undefined, a string,   *)
(* the literal true, or some other value (number, false, null, ...).       *)
(***************************************************************************)
JUndef == [k |-> "undefined", s |-> ""]
JStr(s) == [k |-> "string", s |-> s]
JTrue == [k |-> "true", s |-> ""]
JNull == [k |-> "null", s |-> ""]
JOther == [k |-> "other", s |-> ""]

NoFields ==
    [type |-> JUndef, text |-> JUndef, message |-> JUndef, response |-> JUndef,
     content |-> JUndef, done |-> JUndef, error |-> JUndef, detail |-> JUndef]

\* result of JSON.parse: a SyntaxError, or the parsed value
ParseFail == [kind |-> "fail", s |-> "", f |-> NoFields]
PString(s) == [kind |-> "string", s |-> s, f |-> NoFields]
PPrimitive == [kind |-> "primitive", s |-> "", f |-> NoFields]
PObject(f) == [kind |-> "object", s |-> "", f |-> f]

(***************************************************************************)
(* Inbound units of the WebSocket: the raw text of one message event.      *)
(* JsonParse gives what JSON.parse returns for each unit of the universe.  *)
(***************************************************************************)
RawChunkA == "{\"type\":\"chunk\",\"text\":\"ab\"}"
RawDoneType == "{\"type\":\"done\"}"
RawDoneFlag == "{\"done\":true}"
RawError == "{\"type\":\"error\",\"message\":\"x\"}"
RawSentinel == " [DONE]\n"

InboundUnits == {RawChunkA, RawDoneType, RawDoneFlag, RawError, RawSentinel}

\* further units for the decoder: plain text, JSON that is not an object,
\* objects without a known field, frames that match several rules at once
RawPlain == "hi"
RawNumber == "42"
RawNull == "null"
RawArray == "[1]"
RawUnknown == "{\"foo\":1}"
RawChunkDone == "{\"type\":\"chunk\",\"text\":\"cd\",\"done\":true}"
RawChunkEmpty == "{\"type\":\"chunk\",\"text\":\"\",\"done\":true}"
RawErrorDone == "{\"type\":\"error\",\"error\":\"y\",\"done\":true}"
RawLiteral == "{\"message\":\"\",\"response\":\"r\",\"text\":\"t\"}"
RawContent == "{\"content\":\"c\",\"text\":\"t\"}"

DecoderUnits ==
    InboundUnits \cup {RawPlain, RawNumber, RawNull, RawArray, RawUnknown,
                       RawChunkDone, RawChunkEmpty, RawErrorDone, RawLiteral,
                       RawContent}

JsonParse(raw) ==
    CASE raw = RawChunkA ->
            PObject([NoFields EXCEPT !.type = JStr("chunk"), !.text = JStr("ab")])
      [] raw = RawDoneType -> PObject([NoFields EXCEPT !.type = JStr("done")])
      [] raw = RawDoneFlag -> PObject([NoFields EXCEPT !.done = JTrue])
      [] raw = RawError ->
            PObject([NoFields EXCEPT !.type = JStr("error"), !.message = JStr("x")])
      [] raw = RawSentinel -> ParseFail
      [] raw = RawPlain -> ParseFail
      [] raw = RawNumber -> PPrimitive
      [] raw = RawNull -> PPrimitive
      [] raw = RawArray -> PObject(NoFields)
      [] raw = RawUnknown -> PObject(NoFields)
      [] raw = RawChunkDone ->
            PObject([NoFields EXCEPT !.type = JStr("chunk"), !.text = JStr("cd"),
                                     !.done = JTrue])
      [] raw = RawChunkEmpty ->
            PObject([NoFields EXCEPT !.type = JStr("chunk"), !.text = JStr(""),
                                     !.done = JTrue])
      [] raw = RawErrorDone ->
            PObject([NoFields EXCEPT !.type = JStr("error"), !.error = JStr("y"),
                                     !.done = JTrue])
      [] raw = RawLiteral ->
            PObject([NoFields EXCEPT !.message = JStr(""), !.response = JStr("r"),
                                     !.text = JStr("t")])
      [] raw = RawContent ->
            PObject([NoFields EXCEPT !.content = JStr("c"), !.text = JStr("t")])
      [] OTHER -> ParseFail

\* the wire shapes of section 6: an error frame, a Done frame or sentinel
IsErrorUnit(raw) ==
    JsonParse(raw).kind = "object" /\ JsonParse(raw).f.type = JStr("error")

IsDoneUnit(raw) ==
    LET p == JsonParse(raw) IN
    \/ /\ p.kind = "object"
       /\ p.f.type \notin {JStr("error"), JStr("chunk")}
       /\ (p.f.type = JStr("done") \/ p.f.done = JTrue)
    \/ /\ p.kind \in {"fail", "string"}
       /\ Trim(IF p.kind = "string" THEN p.s ELSE raw) \in {"[DONE]", "__DONE__"}

ErrorDetail(raw) ==
    LET f == JsonParse(raw).f IN
    IF f.message.k = "string" THEN f.message.s
    ELSE IF f.error.k = "string" THEN f.error.s
    ELSE "Chat websocket error."

(***************************************************************************)
(* handleFrame: what one decoded frame does.  The result names the effect: *)
(*   chunk  - fullText += text; onChunk(text)                              *)
(*   done   - finalizeWithText(fullText); socket.close(1000, "done")       *)
(*   throw  - throw new Error(text)                                        *)
(*   ignore - return without effect                                        *)
(***************************************************************************)
Effect(kind, text) == [kind |-> kind, text |-> text]

\* HandleString without the trim of the sentinel comparison
HandleString_NoTrim(frame) ==
    IF frame = "[DONE]" \/ frame = "__DONE__"
    THEN Effect("done", "")
    ELSE Effect("chunk", frame)

HandleString(frame) ==
    LET trimmed == Trim(frame) IN
    IF trimmed = "[DONE]" \/ trimmed = "__DONE__"
    THEN Effect("done", "")
    ELSE Effect("chunk", frame)

\* HandleObject that tests for done before it tests for a chunk
HandleObject_DoneFirst(packet) ==
    IF packet.type = JStr("error") THEN
        Effect("throw",
               IF packet.message.k = "string" THEN packet.message.s
               ELSE IF packet.error.k = "string" THEN packet.error.s
               ELSE "Chat websocket error.")
    ELSE IF packet.type = JStr("done") \/ packet.done = JTrue THEN
        Effect("done", "")
    ELSE IF packet.type = JStr("chunk") THEN
        LET chunk == IF packet.text.k = "string" THEN packet.text.s ELSE "" IN
        IF Len(chunk) > 0 THEN Effect("chunk", chunk) ELSE Effect("ignore", "")
    ELSE IF packet.message.k = "string" THEN Effect("chunk", packet.message.s)
    ELSE IF packet.response.k = "string" THEN Effect("chunk", packet.response.s)
    ELSE IF packet.content.k = "string" THEN Effect("chunk", packet.content.s)
    ELSE IF packet.text.k = "string" THEN Effect("chunk", packet.text.s)
    ELSE Effect("ignore", "")

HandleObject(packet) ==
    IF packet.type = JStr("error") THEN
        Effect("throw",
               IF packet.message.k = "string" THEN packet.message.s
               ELSE IF packet.error.k = "string" THEN packet.error.s
               ELSE "Chat websocket error.")
    ELSE IF packet.type = JStr("chunk") THEN
        LET chunk == IF packet.text.k = "string" THEN packet.text.s ELSE "" IN
        IF Len(chunk) > 0 THEN Effect("chunk", chunk) ELSE Effect("ignore", "")
    ELSE IF packet.type = JStr("done") \/ packet.done = JTrue THEN
        Effect("done", "")
    ELSE IF packet.message.k = "string" THEN Effect("chunk", packet.message.s)
    ELSE IF packet.response.k = "string" THEN Effect("chunk", packet.response.s)
    ELSE IF packet.content.k = "string" THEN Effect("chunk", packet.content.s)
    ELSE IF packet.text.k = "string" THEN Effect("chunk", packet.text.s)
    ELSE Effect("ignore", "")

handleFrame(frame) ==
    CASE frame.kind = "string" -> HandleString(frame.s)
      [] frame.kind = "object" -> HandleObject(frame.f)
      [] OTHER -> Effect("ignore", "")

(***************************************************************************)
(* socket.onmessage for string data: handleFrame(JSON.parse(raw)) inside   *)
(* try; the catch runs handleFrame(raw) both when JSON.parse throws and    *)
(* when handleFrame itself throws.  An effect "throw" that is left over    *)
(* reaches the outer catch, which calls rejectOnce.                        *)
(***************************************************************************)
onmessage(raw) ==
    LET parsed == JsonParse(raw)
        first == IF parsed.kind = "fail" THEN Effect("throw", "SyntaxError")
                 ELSE handleFrame(parsed)
    IN  IF first.kind = "throw" THEN handleFrame(PString(raw)) ELSE first

(***************************************************************************)
(* HTTP fallback: responses of requestUrl, requestJson and callChatApi.    *)
(***************************************************************************)
HttpResponse(status, json, text) == [status |-> status, json |-> json, text |-> text]

RespOk == HttpResponse(200, [NoFields EXCEPT !.message = JStr("ok")], "{\"message\":\"ok\"}")
RespEmpty == HttpResponse(200, [NoFields EXCEPT !.message = JStr("")], "{\"message\":\"\"}")
RespFail == HttpResponse(500, [NoFields EXCEPT !.detail = JStr("boom")], "{\"detail\":\"boom\"}")

HttpResponses == {RespOk, RespEmpty, RespFail}

\* a failure whose detail is shorter than a text already revealed
RespDenied == HttpResponse(403, [NoFields EXCEPT !.detail = JStr("x")], "{\"detail\":\"x\"}")

\* successful responses that carry more than one of message, response, content
RespEmptyThenResponse ==
    HttpResponse(200, [NoFields EXCEPT !.message = JStr(""), !.response = JStr("ok")],
                 "{\"message\":\"\",\"response\":\"ok\"}")
RespOtherThenContent ==
    HttpResponse(200, [NoFields EXCEPT !.message = JOther, !.content = JStr("ok")],
                 "{\"message\":5,\"content\":\"ok\"}")
RespNullThenContent ==
    HttpResponse(200, [NoFields EXCEPT !.message = JNull, !.content = JStr("c")],
                 "{\"message\":null,\"content\":\"c\"}")
RespResponseOnly ==
    HttpResponse(200, [NoFields EXCEPT !.response = JStr("r")], "{\"response\":\"r\"}")

\* a failure of the server whose detail speaks of an abort
RespUpstreamAborted ==
    HttpResponse(502, [NoFields EXCEPT !.detail = JStr("Upstream aborted")],
                 "{\"detail\":\"Upstream aborted\"}")

FallbackResponses ==
    HttpResponses \cup {RespDenied, RespEmptyThenResponse, RespOtherThenContent,
                        RespNullThenContent, RespResponseOnly, RespUpstreamAborted}

Nullish(v) == v.k \in {"undefined", "null"}

extractErrorDetail(response) ==
    LET detail == IF Nullish(response.json.detail) THEN response.json.message
                  ELSE response.json.detail
    IN  IF detail.k = "string" /\ Len(Trim(detail.s)) > 0 THEN Trim(detail.s)
        ELSE IF Len(Trim(response.text)) > 0 THEN Trim(response.text)
        ELSE ""

\* requestJson after the response arrived: the JSON body, or the Error thrown
requestJson(response) ==
    IF response.status < 200 \/ response.status >= 300 THEN
        [ok |-> FALSE, json |-> NoFields,
         error |-> IF extractErrorDetail(response) # ""
                   THEN extractErrorDetail(response)
                   ELSE "API error: " \o ToString(response.status)]
    ELSE [ok |-> TRUE, json |-> response.json, error |-> ""]

\* callChatApi after requestJson: the ChatApiResponse, or the Error thrown
callChatApi(response) ==
    LET result == requestJson(response)
        content == IF ~Nullish(result.json.message) THEN result.json.message
                   ELSE IF ~Nullish(result.json.response) THEN result.json.response
                   ELSE result.json.content
    IN  IF ~result.ok THEN [ok |-> FALSE, message |-> "", error |-> result.error]
        ELSE IF content.k = "string"
        THEN [ok |-> TRUE, message |-> content.s, error |-> ""]
        ELSE [ok |-> FALSE, message |-> "",
              error |-> "Chat API returned an unexpected response."]

\* isAbortError testing the error's name instead of searching its message
isAbortError_ByName(message) == message = "AbortError"

isAbortError(message) == Includes(ToLowerCase(message), "abort")

stripTimestamps(entries) ==
    [k \in 1..Len(entries) |-> [role |-> entries[k].role, content |-> entries[k].content]]

(***************************************************************************)
(* Chat log store.  A file of the vault is absent or holds a text; the     *)
(* markdown log is a title line followed by entries                        *)
(*     ## [<timestamp>] <role> \n <content> \n \n                          *)
(* A log entry is [role, content, timestamp]; NoTimestamp stands for       *)
(* `timestamp: undefined`.                                                 *)
(***************************************************************************)
NoFile == [exists |-> FALSE, text |-> ""]
File(text) == [exists |-> TRUE, text |-> text]

LOG_TITLE == "# Chat history"
LOG_HEADER == "# Chat history\n\n"
NoTimestamp == ""
TurnRoles == {"user", "assistant"}

LogEntry(role, content, timestamp) ==
    [role |-> role, content |-> content, timestamp |-> timestamp]

\* Date.prototype.toISOString for the clock reading t, in seconds
toISOString(t) == "2026-01-01T00:00:0" \o ToString(t) \o ".000Z"

StartsWith(s, p) == Len(s) >= Len(p) /\ SubSeq(s, 1, Len(p)) = p
EndsWith(s, p) == Len(s) >= Len(p) /\ SubSeq(s, Len(s) - Len(p) + 1, Len(s)) = p

\* position of the first c in s at or after k, or 0
IndexOf(s, c, k) ==
    LET hits == {j \in k..Len(s) : SubSeq(s, j, j) = c} IN
    IF hits = {} THEN 0 ELSE CHOOSE j \in hits : \A i \in hits : j <= i

\* text.split(/\r?\n/)
RECURSIVE SplitLines(_)
SplitLines(s) ==
    LET k == IndexOf(s, "\n", 1) IN
    IF k = 0 THEN <<s>>
    ELSE LET cut == IF k > 1 /\ SubSeq(s, k - 1, k - 1) = "\r" THEN k - 2 ELSE k - 1
         IN  <<SubSeq(s, 1, cut)>> \o SplitLines(SubSeq(s, k + 1, Len(s)))

\* lines.join("\n")
RECURSIVE JoinLines(_)
JoinLines(lines) ==
    IF Len(lines) = 0 THEN ""
    ELSE IF Len(lines) = 1 THEN lines[1]
    ELSE lines[1] \o "\n" \o JoinLines(Tail(lines))

\* the role matched by /^## \[(.+)\] (user|assistant)$/u, or "" for no match
HeaderRole(line) ==
    LET matches(role) ==
            /\ StartsWith(line, "## [")
            /\ EndsWith(line, "] " \o role)
            /\ Len(line) >= Len("## [") + 1 + Len("] " \o role)
            /\ ~Includes(line, "\r")
    IN  IF matches("user") THEN "user"
        ELSE IF matches("assistant") THEN "assistant"
        ELSE ""

\* match[1] of a line that HeaderRole matches
HeaderTimestamp(line) ==
    SubSeq(line, Len("## [") + 1, Len(line) - Len("] " \o HeaderRole(line)))

\* the closure `flush` of parseChatLog: the messages after it ran
flush(st) ==
    IF st.currentRole # "" /\ Len(st.buffer) > 0 /\ Len(Trim(JoinLines(st.buffer))) > 0
    THEN Append(st.messages,
                LogEntry(st.currentRole, Trim(JoinLines(st.buffer)), st.currentTimestamp))
    ELSE st.messages

\* the loop of parseChatLog over lines[k..]
RECURSIVE parseLines(_, _, _)
parseLines(lines, k, st) ==
    IF k > Len(lines) THEN flush(st)
    ELSE IF HeaderRole(lines[k]) # ""
    THEN parseLines(lines, k + 1,
                    [messages |-> flush(st),
                     currentRole |-> HeaderRole(lines[k]),
                     currentTimestamp |-> HeaderTimestamp(lines[k]),
                     buffer |-> <<>>])
    ELSE IF StartsWith(lines[k], LOG_TITLE) THEN parseLines(lines, k + 1, st)
    ELSE parseLines(lines, k + 1, [st EXCEPT !.buffer = Append(@, lines[k])])

\* parseChatLog on a text that is not legacy JSON
parseMarkdown(content) ==
    parseLines(SplitLines(content), 1,
               [messages |-> <<>>, currentRole |-> "", currentTimestamp |-> NoTimestamp,
                buffer |-> <<>>])

\* the text of one entry, as appendChatLog and writeChatLog format it
EntryText(timestamp, role, content) ==
    "## [" \o timestamp \o "] " \o role \o "\n" \o content \o "\n\n"

(***************************************************************************)
(* Legacy JSON logs.  LegacyJson gives what JSON.parse returns for each    *)
(* legacy text of the universe: a SyntaxError, an array of items, or an    *)
(* object whose fields messages / history / items / log are absent, an     *)
(* array, or some other value.  An item is an object with fields, or some  *)
(* other value (null, a number, ...).  A number is given by the instant it *)
(* denotes after the seconds-or-milliseconds scaling of normalizeTimestamp.*)
(***************************************************************************)
JNum(instant) == [k |-> "number", s |-> instant]

NoItemFields ==
    [role |-> JUndef, type |-> JUndef, author |-> JUndef, sender |-> JUndef,
     content |-> JUndef, text |-> JUndef, message |-> JUndef,
     timestamp |-> JUndef, time |-> JUndef, created_at |-> JUndef,
     createdAt |-> JUndef, date |-> JUndef, ts |-> JUndef]

ItemObject(f) == [object |-> TRUE, f |-> f]
ItemOther == [object |-> FALSE, f |-> NoItemFields]

LAbsent == [k |-> "undefined", items |-> <<>>]
LOther == [k |-> "other", items |-> <<>>]
LArray(items) == [k |-> "array", items |-> items]

NoLogFields == [messages |-> LAbsent, history |-> LAbsent, items |-> LAbsent, log |-> LAbsent]

LFail == [kind |-> "fail", items |-> <<>>, f |-> NoLogFields]
LTopArray(items) == [kind |-> "array", items |-> items, f |-> NoLogFields]
LTopObject(f) == [kind |-> "object", items |-> <<>>, f |-> f]

LegacySystemOnly == "[{\"role\":\"system\",\"content\":\"s\"}]"
LegacyMixed ==
    "{\"messages\":[{\"role\":\"system\",\"content\":\"s\"},{\"role\":\"user\",\"content\":\"q\",\"timestamp\":\"2020-01-02\"},{\"type\":\"assistant\",\"text\":\"a\",\"time\":\"soon\"},null]}"
LegacyEmptyContent == "[{\"role\":\"user\"}]"
LegacyStamped ==
    "[{\"sender\":\"user\",\"message\":\"q\",\"ts\":1577836800},{\"role\":\"assistant\",\"content\":\"a\",\"created_at\":\"2020-01-01T00:00:00.000Z\"}]\n"
LegacyNoList == "{\"log\":5}"
LegacyBroken == "{\"messages\":"

LegacyLogs ==
    {LegacySystemOnly, LegacyMixed, LegacyEmptyContent, LegacyStamped, LegacyNoList,
     LegacyBroken}

LegacyJson(text) ==
    CASE text = LegacySystemOnly ->
            LTopArray(<<ItemObject([NoItemFields EXCEPT !.role = JStr("system"),
                                                        !.content = JStr("s")])>>)
      [] text = LegacyMixed ->
            LTopObject([NoLogFields EXCEPT !.messages = LArray(<<
                ItemObject([NoItemFields EXCEPT !.role = JStr("system"),
                                                !.content = JStr("s")]),
                ItemObject([NoItemFields EXCEPT !.role = JStr("user"),
                                                !.content = JStr("q"),
                                                !.timestamp = JStr("2020-01-02")]),
                ItemObject([NoItemFields EXCEPT !.type = JStr("assistant"),
                                                !.text = JStr("a"),
                                                !.time = JStr("soon")]),
                ItemOther>>)])
      [] text = LegacyEmptyContent ->
            LTopArray(<<ItemObject([NoItemFields EXCEPT !.role = JStr("user")])>>)
      [] text = Trim(LegacyStamped) ->
            LTopArray(<<
                ItemObject([NoItemFields EXCEPT !.sender = JStr("user"),
                                                !.message = JStr("q"),
                                                !.ts = JNum("2020-01-01T00:00:00.000Z")]),
                ItemObject([NoItemFields EXCEPT !.role = JStr("assistant"),
                                                !.content = JStr("a"),
                                                !.created_at = JStr("2020-01-01T00:00:00.000Z")])>>)
      [] text = LegacyNoList -> LTopObject([NoLogFields EXCEPT !.log = LOther])
      [] OTHER -> LFail

\* new Date(value).toISOString() for a string, or "" for an Invalid Date
DateParse(value) ==
    CASE value = "2020-01-01T00:00:00.000Z" -> "2020-01-01T00:00:00.000Z"
      [] value = "2020-01-02" -> "2020-01-02T00:00:00.000Z"
      [] OTHER -> ""

\* the first value of a `??` chain that is neither undefined nor null
RECURSIVE Coalesce(_, _)
Coalesce(values, default) ==
    IF Len(values) = 0 THEN default
    ELSE IF ~Nullish(Head(values)) THEN Head(values)
    ELSE Coalesce(Tail(values), default)

\* the ISO string, or NoTimestamp for null
normalizeTimestamp(value) ==
    IF value.k = "string" THEN DateParse(value.s)
    ELSE IF value.k = "number" THEN value.s
    ELSE NoTimestamp

extractTimestamp(record) ==
    normalizeTimestamp(
        Coalesce(<<record.timestamp, record.time, record.created_at, record.createdAt,
                   record.date, record.ts>>, JNull))

\* the callback of items.map in parseChatLog: <<entry>>, or <<>> for null
legacyEntry(item) ==
    IF ~item.object THEN <<>>
    ELSE LET role == Coalesce(<<item.f.role, item.f.type, item.f.author, item.f.sender>>,
                              JNull)
             contentValue == Coalesce(<<item.f.content, item.f.text, item.f.message>>,
                                      JStr(""))
         IN  IF role \notin {JStr("user"), JStr("assistant"), JStr("system")} THEN <<>>
             ELSE IF contentValue.k # "string" THEN <<>>
             ELSE <<LogEntry(role.s, contentValue.s, extractTimestamp(item.f))>>

RECURSIVE legacyEntries(_)
legacyEntries(items) ==
    IF Len(items) = 0 THEN <<>>
    ELSE legacyEntry(Head(items)) \o legacyEntries(Tail(items))

parseChatLog(content) ==
    LET trimmed == Trim(content)
        parsed == LegacyJson(trimmed)
        rawItems == IF parsed.kind = "array" THEN LArray(parsed.items)
                    ELSE Coalesce(<<parsed.f.messages, parsed.f.history, parsed.f.items,
                                    parsed.f.log>>, LArray(<<>>))
    IN  IF (StartsWith(trimmed, "{") \/ StartsWith(trimmed, "[")) /\ parsed.kind # "fail"
        THEN legacyEntries(IF rawItems.k = "array" THEN rawItems.items ELSE <<>>)
        ELSE parseMarkdown(content)

\* the text writeChatLog builds from the entries at the clock reading now
RECURSIVE logEntriesText(_, _)
logEntriesText(history, now) ==
    IF Len(history) = 0 THEN ""
    ELSE LET message == Head(history)
             timestamp == IF message.timestamp = NoTimestamp THEN toISOString(now)
                          ELSE message.timestamp
         IN  (IF message.role \in TurnRoles
              THEN EntryText(timestamp, message.role, message.content)
              ELSE "")
             \o logEntriesText(Tail(history), now)

writeChatLogText(history, now) == LOG_HEADER \o logEntriesText(history, now)

(***************************************************************************)
(* Artifact extraction.  The section marker of the source is a Cyrillic    *)
(* word followed by a colon; it is written here in Latin letters.          *)
(***************************************************************************)
ARTIFACTS_MARKER == "Artefakty:"
ARTIFACTS_PREFIX == "/artifacts/"

\* the longest prefix of s without whitespace: what \S+ matches at its start
RECURSIVE NonSpacePrefix(_)
NonSpacePrefix(s) ==
    IF Len(s) = 0 \/ IsSpace(SubSeq(s, 1, 1)) THEN ""
    ELSE SubSeq(s, 1, 1) \o NonSpacePrefix(SubSeq(s, 2, Len(s)))

\* match[1] of trimmed.match(/^-\s*(\/artifacts\/\S+)/u), or "" for no match
ArtifactMatch(trimmed) ==
    LET rest == TrimStart(SubSeq(trimmed, 2, Len(trimmed))) IN
    IF StartsWith(trimmed, "-") /\ StartsWith(rest, ARTIFACTS_PREFIX)
       /\ Len(NonSpacePrefix(rest)) > Len(ARTIFACTS_PREFIX)
    THEN NonSpacePrefix(rest)
    ELSE ""

\* the loop of extractArtifactPaths over lines[k..]
RECURSIVE artifactLines(_, _, _, _)
artifactLines(lines, k, inBlock, paths) ==
    IF k > Len(lines) THEN paths
    ELSE LET trimmed == Trim(lines[k]) IN
         IF StartsWith(trimmed, ARTIFACTS_MARKER) THEN artifactLines(lines, k + 1, TRUE, paths)
         ELSE IF ~inBlock THEN artifactLines(lines, k + 1, inBlock, paths)
         ELSE IF ArtifactMatch(trimmed) # ""
         THEN artifactLines(lines, k + 1, inBlock, Append(paths, ArtifactMatch(trimmed)))
         ELSE IF Len(trimmed) > 0 THEN paths
         ELSE artifactLines(lines, k + 1, inBlock, paths)

extractArtifactPaths(text) == artifactLines(SplitLines(text), 1, FALSE, <<>>)

(***************************************************************************)
(* Snapshot tracker.  A file list is a sequence of [path, mtime] with      *)
(* distinct paths, in the order of the folder traversal.  SnapshotJson     *)
(* gives what JSON.parse returns for a snapshot text: a SyntaxError, null, *)
(* an object without `files`, an object whose `files` is not an array, or  *)
(* the snapshot that writeSnapshot serialized.                             *)
(***************************************************************************)
Paths == {"a.md", "b.md"}
Mtimes == 1..MaxMtime

FileLists ==
    {list \in UNION {[1..n -> [path : Paths, mtime : Mtimes]] : n \in 0..Cardinality(Paths)} :
        \A j, k \in 1..Len(list) : list[j].path = list[k].path => j = k}

RECURSIVE snapshotEntriesText(_)
snapshotEntriesText(files) ==
    IF Len(files) = 0 THEN ""
    ELSE "    {\n      \"path\": \"" \o Head(files).path \o "\",\n      \"mtime\": "
         \o ToString(Head(files).mtime) \o "\n    }"
         \o (IF Len(files) > 1 THEN ",\n" ELSE "\n")
         \o snapshotEntriesText(Tail(files))

\* JSON.stringify({ files }, null, 2)
snapshotText(files) ==
    IF Len(files) = 0 THEN "{\n  \"files\": []\n}"
    ELSE "{\n  \"files\": [\n" \o snapshotEntriesText(files) \o "  ]\n}"

SnapshotGarbage == "{\"files\": ["
SnapshotNull == "null"
SnapshotNoFiles == "{}"
SnapshotFilesNumber == "{\"files\":5}"

MalformedSnapshots == {SnapshotGarbage, SnapshotNull, SnapshotNoFiles, SnapshotFilesNumber}

SnapshotJson(text) ==
    IF \E files \in FileLists : snapshotText(files) = text
    THEN [kind |-> "snapshot",
          files |-> CHOOSE files \in FileLists : snapshotText(files) = text]
    ELSE CASE text = SnapshotNull -> [kind |-> "null", files |-> <<>>]
           [] text = SnapshotNoFiles -> [kind |-> "noFiles", files |-> <<>>]
           [] text = SnapshotFilesNumber -> [kind |-> "filesNumber", files |-> <<>>]
           [] OTHER -> [kind |-> "fail", files |-> <<>>]

\* readSnapshot: the parsed value, kind "null" standing for the result null
readSnapshot(file) ==
    IF ~file.exists \/ SnapshotJson(file.text).kind = "fail"
    THEN [kind |-> "null", files |-> <<>>]
    ELSE SnapshotJson(file.text)

PathsOf(files) == {files[k].path : k \in 1..Len(files)}

\* currentMap.get(path), 0 for undefined
CurrentMtime(files, path) ==
    IF path \in PathsOf(files)
    THEN files[CHOOSE k \in 1..Len(files) : files[k].path = path].mtime
    ELSE 0

SnapshotState(exists, changed, error) ==
    [exists |-> exists, changed |-> changed, error |-> error]

\* getSnapshotState that compares the number of files and their paths only
getSnapshotState_PathsOnly(file, files) ==
    LET snapshot == readSnapshot(file) IN
    IF snapshot.kind = "null" THEN SnapshotState(FALSE, FALSE, "")
    ELSE IF snapshot.kind = "noFiles" THEN SnapshotState(FALSE, FALSE, "TypeError")
    ELSE IF snapshot.kind = "filesNumber" THEN SnapshotState(TRUE, TRUE, "")
    ELSE IF Len(snapshot.files) # Len(files) THEN SnapshotState(TRUE, TRUE, "")
    ELSE IF \E k \in 1..Len(snapshot.files) :
                CurrentMtime(files, snapshot.files[k].path) = 0
    THEN SnapshotState(TRUE, TRUE, "")
    ELSE SnapshotState(TRUE, FALSE, "")

\* getSnapshotState: the state, or the TypeError thrown while reading
\* snapshot.files.length
getSnapshotState(file, files) ==
    LET snapshot == readSnapshot(file) IN
    IF snapshot.kind = "null" THEN SnapshotState(FALSE, FALSE, "")
    ELSE IF snapshot.kind = "noFiles" THEN SnapshotState(FALSE, FALSE, "TypeError")
    ELSE IF snapshot.kind = "filesNumber" THEN SnapshotState(TRUE, TRUE, "")
    ELSE IF Len(snapshot.files) # Len(files) THEN SnapshotState(TRUE, TRUE, "")
    ELSE IF \E k \in 1..Len(snapshot.files) :
                LET currentMtime == CurrentMtime(files, snapshot.files[k].path) IN
                currentMtime = 0 \/ currentMtime # snapshot.files[k].mtime
    THEN SnapshotState(TRUE, TRUE, "")
    ELSE SnapshotState(TRUE, FALSE, "")

replaceTextFile(file, content) == File(content)

(***************************************************************************)
(* The context of a folder in the vault.  The context folder holds the     *)
(* snapshot, the summary, chat-state.json (given by the activeLogPath it   *)
(* names), the artifacts folder, at most one markdown chat log and at most *)
(* one legacy JSON log.  An archive is a context folder renamed to         *)
(* `<contextPath>-<timestamp>`.  Chat logs are looked up in the context    *)
(* folder and in every archive (getChatLogCandidates).                     *)
(***************************************************************************)
CONTEXT_DIR == "4senseContext"
CHAT_LOG_PREFIX == "chat-"

\* formatTimestamp(new Date()) for the clock reading t, in seconds
formatTimestamp(t) == "01-01-26T00-00-0" \o ToString(t)

NoContext ==
    [exists |-> FALSE, artifacts |-> FALSE, snapshot |-> NoFile, summary |-> NoFile,
     state |-> NoFile, log |-> NoFile, logName |-> "", legacy |-> NoFile]

EmptyContext == [NoContext EXCEPT !.exists = TRUE]

\* ensureFolderExists(getContextPath(folder))
ensureContextFolder(v) ==
    IF v.context.exists THEN v ELSE [v EXCEPT !.context = EmptyContext]

ensureArtifactsFolder(v) == [v EXCEPT !.context.artifacts = TRUE]

\* the archive that holds the markdown log / the legacy log, or 0
LogArchive(v) ==
    IF \E k \in 1..Len(v.archives) : v.archives[k].context.log.exists
    THEN CHOOSE k \in 1..Len(v.archives) : v.archives[k].context.log.exists
    ELSE 0

LegacyArchive(v) ==
    IF \E k \in 1..Len(v.archives) : v.archives[k].context.legacy.exists
    THEN CHOOSE k \in 1..Len(v.archives) : v.archives[k].context.legacy.exists
    ELSE 0

\* getLatestChatLogPath: the path of the markdown log, or "" for null
getLatestChatLogPath(v) ==
    IF v.context.log.exists THEN CONTEXT_DIR \o "/" \o v.context.logName
    ELSE IF LogArchive(v) > 0
    THEN v.archives[LogArchive(v)].path \o "/" \o v.archives[LogArchive(v)].context.logName
    ELSE ""

\* the file at the path of the markdown log
ChatLogFile(v) ==
    IF v.context.log.exists THEN v.context.log
    ELSE IF LogArchive(v) > 0 THEN v.archives[LogArchive(v)].context.log
    ELSE NoFile

WithChatLogFile(v, file) ==
    IF ~v.context.log.exists /\ LogArchive(v) > 0
    THEN [v EXCEPT !.archives[LogArchive(v)].context.log = file]
    ELSE [v EXCEPT !.context.log = file]

LegacyFile(v) ==
    IF v.context.legacy.exists THEN v.context.legacy
    ELSE IF LegacyArchive(v) > 0 THEN v.archives[LegacyArchive(v)].context.legacy
    ELSE NoFile

\* writeSnapshot
writeSnapshot(v, files) ==
    [ensureContextFolder(v) EXCEPT
        !.context.snapshot = replaceTextFile(@, snapshotText(files))]

\* archiveContextFolder that copies the context folder and leaves it in place
archiveContextFolder_Copy(v, now) ==
    IF ~v.context.exists THEN v
    ELSE [v EXCEPT !.archives =
              Append(@, [path |-> CONTEXT_DIR \o "-" \o formatTimestamp(now),
                         context |-> v.context])]

\* archiveContextFolder at the clock reading now
archiveContextFolder(v, now) ==
    IF ~v.context.exists THEN v
    ELSE [context |-> NoContext,
          archives |-> Append(v.archives,
                              [path |-> CONTEXT_DIR \o "-" \o formatTimestamp(now),
                               context |-> v.context])]

writeChatState(v, activeLogPath) ==
    [ensureContextFolder(v) EXCEPT
        !.context.state = replaceTextFile(@, activeLogPath)]

\* getOrCreateChatLog at the clock reading now; the path it returns is
\* getLatestChatLogPath of the result
getOrCreateChatLog(v0, now) ==
    LET v == ensureContextFolder(v0) IN
    IF v.context.state.exists /\ v.context.state.text # ""
       /\ v.context.state.text = getLatestChatLogPath(v)
    THEN v
    ELSE IF getLatestChatLogPath(v) # "" THEN writeChatState(v, getLatestChatLogPath(v))
    ELSE LET created == [v EXCEPT !.context.log = File(LOG_HEADER),
                                  !.context.logName =
                                      CHAT_LOG_PREFIX \o formatTimestamp(now) \o ".md"]
         IN  writeChatState(created, getLatestChatLogPath(created))

loadChatEntries(file) == IF ~file.exists THEN <<>> ELSE parseChatLog(file.text)

loadChatHistory(file) == stripTimestamps(loadChatEntries(file))

\* findChatHistory(folder, chatLogPath, true): the entries of the first
\* candidate other than the active log that has any, or <<>> for null
findChatHistory(v) == loadChatEntries(LegacyFile(v))

\* writeChatLog into the active log at the clock reading now
writeChatLog(v, history, now) ==
    WithChatLogFile(v, replaceTextFile(ChatLogFile(v), writeChatLogText(history, now)))

\* appendTextFile whose vault.process callback returns the new content alone
appendTextFile_Overwrite(file, content, prefixForCreate) ==
    File(prefixForCreate \o content)

appendTextFile(file, content, prefixForCreate) ==
    IF file.exists THEN File(file.text \o content)
    ELSE File(prefixForCreate \o content)

(***************************************************************************)
(* State.                                                               *)
(*   modal   - the fields of ChatModal                                     *)
(*   turn    - per sendMessage invocation: its position and closure;       *)
(*             outcome/response/error are how `await this.onStream(...)`   *)
(*             settled, chunkCalls counts the calls of its chunk callback  *)
(*   ws      - per invocation: the closure of callChatApiWebSocket and     *)
(*             its socket; inbound counts the units that arrived and       *)
(*             errorFrame records that a {type:"error"} unit was           *)
(*             dispatched to onmessage                                     *)
(*   http    - per invocation: the fallback request of callChatApi         *)
(*   dom     - per invocation: the streaming message element               *)
(*   chatLog - the entries appended to the active chat log                 *)
(*   env     - settings and host environment, fixed during a session       *)
(*   ticks   - how often the typing interval has fired                     *)
(*   vault   - the context folder of the chat folder and its archives      *)
(*   opening - openChatForFolder: its position, its locals (files,         *)
(*             snapshotState, the fallback entries, history), how it ended, *)
(*             how often the command ran and how often it rewrote the log  *)
(*             from a fallback                                             *)
(*   clock   - the reading of the host clock, in seconds                   *)
(***************************************************************************)
VARIABLES modal, turn, ws, http, dom, chatLog, env, ticks, vault, opening, clock

vars == <<modal, turn, ws, http, dom, chatLog, env, ticks, vault, opening, clock>>

SUMMARY == "S"
UserInputs == {" hi\n", "  "}

NoFinalize == [body |-> 0, text |-> ""]
NoPayload == [summary |-> "", messages |-> <<>>]

InitModal ==
    [messages |-> <<[role |-> "system", content |-> CHAT_SYSTEM_PROMPT]>>,
     isWaiting |-> FALSE,
     requestCounter |-> 0,
     canceledRequest |-> 0,          \* 0 is null
     currentAbort |-> 0,             \* 0 is null, else the invocation owning the controller
     streamingRenderTarget |-> 0,    \* 0 is null, else the invocation owning the body
     streamingRenderText |-> "",
     streamingTypingTimer |-> FALSE, \* TRUE: the interval is running
     streamingTypingProgress |-> 0,
     streamingFinalizeTarget |-> NoFinalize]

InitTurn ==
    [pc |-> "idle", text |-> "", requestId |-> 0, fullText |-> "", hasChunk |-> FALSE,
     aborted |-> FALSE, chunkCalls |-> 0, outcome |-> "pending", response |-> "",
     error |-> "", result |-> "none", finalText |-> "", artifactPaths |-> <<>>]

InitWs ==
    [sock |-> "none", settled |-> FALSE, outcome |-> "pending", message |-> "",
     error |-> "", fullText |-> "", openTimeout |-> FALSE, listening |-> FALSE,
     closeCode |-> 0, sent |-> 0, payload |-> NoPayload, inbound |-> 0,
     errorFrame |-> FALSE, onopen |-> FALSE]

InitHttp ==
    [state |-> "none", count |-> 0, payload |-> NoPayload, ok |-> FALSE, message |-> ""]

InitDom ==
    [attached |-> FALSE, loading |-> FALSE, streaming |-> FALSE,
     content |-> "none", text |-> ""]

NoSnapshotState == SnapshotState(FALSE, FALSE, "")

InitOpening ==
    [pc |-> "idle", files |-> <<>>, snapshotState |-> NoSnapshotState,
     entries |-> <<>>, history |-> <<>>, error |-> "", opens |-> 0, migrations |-> 0]

\* the context and the command after a first open that found no context:
\* the session of the chat modal runs on a log that was just created
SessionVault ==
    [context |-> [exists |-> TRUE, artifacts |-> TRUE,
                  snapshot |-> File(snapshotText(<<>>)),
                  summary |-> File(SUMMARY),
                  state |-> File(CONTEXT_DIR \o "/" \o CHAT_LOG_PREFIX
                                 \o formatTimestamp(1) \o ".md"),
                  log |-> File(LOG_HEADER),
                  logName |-> CHAT_LOG_PREFIX \o formatTimestamp(1) \o ".md",
                  legacy |-> NoFile],
     archives |-> <<>>]

SessionOpening == [InitOpening EXCEPT !.pc = "opened", !.opens = 1]

Init ==
    /\ modal = InitModal
    /\ turn = [i \in Invocations |-> InitTurn]
    /\ ws = [i \in Invocations |-> InitWs]
    /\ http = [i \in Invocations |-> InitHttp]
    /\ dom = [i \in Invocations |-> InitDom]
    /\ chatLog = <<>>
    /\ env \in [apiHost : BOOLEAN, webSocket : BOOLEAN]
    /\ ticks = 0
    /\ vault = SessionVault
    /\ opening = SessionOpening
    /\ clock = 1

\* the state as one value, so that the steps of a handler compose
World ==
    [modal |-> modal, turn |-> turn, ws |-> ws, http |-> http, dom |-> dom,
     chatLog |-> chatLog, vault |-> vault, clock |-> clock]

Advance(w) ==
    /\ modal' = w.modal
    /\ turn' = w.turn
    /\ ws' = w.ws
    /\ http' = w.http
    /\ dom' = w.dom
    /\ chatLog' = w.chatLog
    /\ vault' = w.vault
    /\ clock' = w.clock
    /\ UNCHANGED <<env, opening>>

Becomes(w) == Advance(w) /\ UNCHANGED ticks

\* appendChatLog on the active log: the onLog callback of the modal
appendChatLog(w, role, content) ==
    [w EXCEPT !.chatLog = Append(@, [role |-> role, content |-> content]),
              !.vault = WithChatLogFile(
                            @, appendTextFile(ChatLogFile(@),
                                              EntryText(toISOString(w.clock), role, content),
                                              LOG_HEADER))]

(***************************************************************************)
(* Reveal scheduler (ChatModal).  Each operator maps a world to a world.   *)
(***************************************************************************)
stopStreamingTyping(w) ==
    [w EXCEPT !.modal.streamingTypingTimer = FALSE,
              !.modal.streamingTypingProgress = 0]

renderAssistantMarkdown(w, body, text) ==
    [w EXCEPT !.dom[body].content = "markdown", !.dom[body].text = text]

completeFinalize(w, body, text) ==
    LET w1 == stopStreamingTyping(w)
        w2 == [w1 EXCEPT !.dom[body].streaming = FALSE]
    IN  renderAssistantMarkdown(w2, body, text)

\* queueFinalize that renders at once, whether or not a reveal is running
queueFinalize_Immediate(w, body, text) ==
    completeFinalize(
        [w EXCEPT !.modal.streamingFinalizeTarget = [body |-> body, text |-> text]],
        body, text)

queueFinalize(w, body, text) ==
    LET w1 == [w EXCEPT !.modal.streamingFinalizeTarget = [body |-> body, text |-> text]]
    IN  IF ~w1.modal.streamingTypingTimer THEN completeFinalize(w1, body, text) ELSE w1

updateTypingText(w, body, text) ==
    [w EXCEPT !.modal.streamingTypingProgress =
                  IF w.modal.streamingRenderTarget # body THEN 0 ELSE @,
              !.modal.streamingRenderTarget = body,
              !.modal.streamingRenderText = text,
              !.modal.streamingTypingTimer = TRUE]

updateStreamingMessage(w, body, text) ==
    updateTypingText([w EXCEPT !.dom[body].streaming = TRUE], body, text)

resetStreamingState(w) ==
    [stopStreamingTyping(w) EXCEPT !.modal.streamingRenderText = "",
                                   !.modal.streamingRenderTarget = 0,
                                   !.modal.streamingTypingProgress = 0,
                                   !.modal.streamingFinalizeTarget = NoFinalize]

tickStreamingTyping(w) ==
    LET m == w.modal
        fullText == m.streamingRenderText
        remaining == Len(fullText) - m.streamingTypingProgress
        catchup == CeilDiv(remaining, STREAM_TYPING_CATCHUP_WINDOW)
        step == Max(STREAM_TYPING_BASE_STEP, catchup)
        progress == Min(Len(fullText), m.streamingTypingProgress + step)
    IN  IF m.streamingRenderTarget = 0 THEN stopStreamingTyping(w)
        ELSE IF fullText = "" THEN stopStreamingTyping(w)
        ELSE IF remaining <= 0 THEN
            IF m.streamingFinalizeTarget.body # 0
            THEN completeFinalize(
                     [w EXCEPT !.modal.streamingFinalizeTarget = NoFinalize],
                     m.streamingFinalizeTarget.body, m.streamingFinalizeTarget.text)
            ELSE stopStreamingTyping(w)
        ELSE [w EXCEPT !.modal.streamingTypingProgress = progress,
                       !.dom[m.streamingRenderTarget].content = "text",
                       !.dom[m.streamingRenderTarget].text = Slice(fullText, progress)]

(***************************************************************************)
(* sendMessage: the closure of one invocation i and its continuations.     *)
(***************************************************************************)
setWaiting(w, waiting) == [w EXCEPT !.modal.isWaiting = waiting]

ensureStreamingReady(w, i) ==
    IF w.turn[i].hasChunk THEN w
    ELSE [w EXCEPT !.turn[i].hasChunk = TRUE,
                   !.dom[i].loading = FALSE,
                   !.dom[i].content = "empty",
                   !.dom[i].text = "",
                   !.dom[i].streaming = TRUE]

\* the chunk callback that sendMessage passes to onStream
onChunk(w, i, chunk) ==
    LET w1 == ensureStreamingReady(w, i)
        w2 == [w1 EXCEPT !.turn[i].fullText = @ \o chunk,
                         !.turn[i].chunkCalls = @ + 1]
    IN  updateStreamingMessage(w2, i, w2.turn[i].fullText)

removeWrapper(w, i) == [w EXCEPT !.dom[i].attached = FALSE]

\* the finally block
sendFinally(w, i) ==
    [setWaiting(w, FALSE) EXCEPT !.modal.canceledRequest = 0,
                                 !.modal.currentAbort = 0,
                                 !.turn[i].pc = "done"]

\* a catch block that also records the error text as an assistant message
sendCatch_PushesError(w, i, message) ==
    LET w1 == [w EXCEPT !.turn[i].error = message, !.turn[i].outcome = "rejected"]
        w2 == IF w1.modal.canceledRequest # w1.turn[i].requestId THEN
                  IF Includes(ToLowerCase(message), "abort")
                  THEN [removeWrapper(w1, i) EXCEPT !.turn[i].result = "dropped"]
                  ELSE [updateStreamingMessage(ensureStreamingReady(w1, i), i, message)
                           EXCEPT !.turn[i].result = "error",
                                  !.modal.messages =
                                      Append(@, [role |-> "assistant", content |-> message])]
              ELSE [removeWrapper(w1, i) EXCEPT !.turn[i].result = "dropped"]
    IN  sendFinally(w2, i)

\* the catch block, then finally
sendCatch(w, i, message) ==
    LET w1 == [w EXCEPT !.turn[i].error = message, !.turn[i].outcome = "rejected"]
        w2 == IF w1.modal.canceledRequest # w1.turn[i].requestId THEN
                  IF Includes(ToLowerCase(message), "abort")
                  THEN [removeWrapper(w1, i) EXCEPT !.turn[i].result = "dropped"]
                  ELSE [updateStreamingMessage(ensureStreamingReady(w1, i), i, message)
                           EXCEPT !.turn[i].result = "error"]
              ELSE [removeWrapper(w1, i) EXCEPT !.turn[i].result = "dropped"]
    IN  sendFinally(w2, i)

\* a continuation that discards a turn whose final text is empty
sendResolved_DropsEmpty(w0, i, message) ==
    LET w == [w0 EXCEPT !.turn[i].outcome = "resolved", !.turn[i].response = message,
                        !.turn[i].artifactPaths = extractArtifactPaths(message)] IN
    IF w.modal.canceledRequest = w.turn[i].requestId
       \/ (message = "" /\ w.turn[i].fullText = "")
    THEN sendFinally([removeWrapper(w, i) EXCEPT !.turn[i].result = "dropped"], i)
    ELSE LET w1 == ensureStreamingReady(w, i)
             finalText == IF message # "" THEN message ELSE w1.turn[i].fullText
             w2 == [w1 EXCEPT !.modal.messages =
                                  Append(@, [role |-> "assistant", content |-> finalText]),
                              !.turn[i].finalText = finalText,
                              !.turn[i].result = "appended",
                              !.turn[i].pc = "logAssistant"]
         IN  queueFinalize(w2, i, finalText)

\* after `await this.onStream(...)` resolved, up to `await this.onLog("assistant", ...)`
sendResolved(w0, i, message) ==
    LET w == [w0 EXCEPT !.turn[i].outcome = "resolved", !.turn[i].response = message,
                        !.turn[i].artifactPaths = extractArtifactPaths(message)] IN
    IF w.modal.canceledRequest = w.turn[i].requestId
    THEN sendFinally([removeWrapper(w, i) EXCEPT !.turn[i].result = "dropped"], i)
    ELSE LET w1 == ensureStreamingReady(w, i)
             finalText == IF message # "" THEN message ELSE w1.turn[i].fullText
             w2 == [w1 EXCEPT !.modal.messages =
                                  Append(@, [role |-> "assistant", content |-> finalText]),
                              !.turn[i].finalText = finalText,
                              !.turn[i].result = "appended",
                              !.turn[i].pc = "logAssistant"]
         IN  queueFinalize(w2, i, finalText)

(***************************************************************************)
(* callChatApiStream and callChatApiWebSocket.                             *)
(***************************************************************************)
CloseCodes == {NORMAL_CLOSURE, 1006}

Payload(w) == [summary |-> SUMMARY, messages |-> stripTimestamps(w.modal.messages)]

\* callChatApi up to `await requestUrl(...)`; the signal is ignored (void signal)
startChatApi(w, i) ==
    IF ~env.apiHost
    THEN sendCatch(w, i, "API host is not configured. Set it in settings.")
    ELSE [w EXCEPT !.http[i].state = "inflight",
                   !.http[i].count = @ + 1,
                   !.http[i].payload = Payload(w)]

\* the catch block of callChatApiStream
streamCatch(w, i, error) ==
    IF isAbortError(error) THEN sendCatch(w, i, error) ELSE startChatApi(w, i)

\* cleanup that leaves socket.onopen in place
cleanup_KeepOnopen(w, i) ==
    [w EXCEPT !.ws[i].listening = FALSE, !.ws[i].openTimeout = FALSE]

cleanup(w, i) ==
    [w EXCEPT !.ws[i].onopen = FALSE,
              !.ws[i].listening = FALSE,
              !.ws[i].openTimeout = FALSE]

resolveOnce(w, i, text) ==
    IF w.ws[i].settled THEN w
    ELSE sendResolved(
             [cleanup(w, i) EXCEPT !.ws[i].settled = TRUE,
                                   !.ws[i].outcome = "resolved",
                                   !.ws[i].message = text],
             i, text)

rejectOnce(w, i, error) ==
    IF w.ws[i].settled THEN w
    ELSE streamCatch(
             [cleanup(w, i) EXCEPT !.ws[i].settled = TRUE,
                                   !.ws[i].outcome = "rejected",
                                   !.ws[i].error = error],
             i, error)

finalizeWithText(w, i, text) == resolveOnce(w, i, text)

socketClose(w, i, code) ==
    [w EXCEPT !.ws[i].closeCode = IF @ = 0 THEN code ELSE @,
              !.ws[i].sock = IF @ = "connecting" THEN "canceled"
                             ELSE IF @ = "open" THEN "closing"
                             ELSE @]

onAbort(w, i) == rejectOnce(socketClose(w, i, NORMAL_CLOSURE), i, "Request aborted")

\* AbortController.abort(): fires the signal's listeners once
abort(w, i) ==
    IF i = 0 \/ w.turn[i].aborted THEN w
    ELSE LET w1 == [w EXCEPT !.turn[i].aborted = TRUE]
         IN  IF w1.ws[i].listening THEN onAbort(w1, i) ELSE w1

\* callChatApiWebSocket up to the return of the promise
callChatApiWebSocket(w, i) ==
    IF ~env.apiHost
    THEN streamCatch(w, i, "API host is not configured. Set it in settings.")
    ELSE IF ~env.webSocket
    THEN streamCatch(w, i, "WebSocket is not available in this environment.")
    ELSE LET w1 == [w EXCEPT !.ws[i] = [InitWs EXCEPT !.sock = "connecting",
                                                      !.openTimeout = TRUE,
                                                      !.payload = Payload(w)]]
         IN  IF w1.turn[i].aborted THEN onAbort(w1, i)
             ELSE [w1 EXCEPT !.ws[i].listening = TRUE, !.ws[i].onopen = TRUE]

\* the effect of one inbound unit on an attempt that has not settled
applyFrame(w, i, raw) ==
    LET e == onmessage(raw) IN
    CASE e.kind = "chunk" ->
            onChunk([w EXCEPT !.ws[i].fullText = @ \o e.text], i, e.text)
      [] e.kind = "done" ->
            socketClose(finalizeWithText(w, i, w.ws[i].fullText), i, NORMAL_CLOSURE)
      [] e.kind = "throw" -> rejectOnce(w, i, e.text)
      [] OTHER -> w

\* socket.onopen
onopen(w, i) ==
    [w EXCEPT !.ws[i].sock = "open",
              !.ws[i].openTimeout = FALSE,
              !.ws[i].sent = @ + 1]

\* sendMessage from the accepted input up to `await this.onLog("user", text)`
sendMessage(w, i, text) ==
    [w EXCEPT !.modal.messages = Append(@, [role |-> "user", content |-> text]),
              !.turn[i].text = text,
              !.turn[i].pc = "logUser"]

\* sendMessage from the completion of the user log up to
\* `await this.onStream(...)`
sendAfterUserLog(w, i) ==
    LET w0 == appendChatLog(w, "user", w.turn[i].text)
        w1 == resetStreamingState(w0)
        w2 == [w1 EXCEPT !.dom[i] = [attached |-> TRUE, loading |-> TRUE,
                                     streaming |-> FALSE, content |-> "dots",
                                     text |-> ""]]
        w3 == setWaiting(w2, TRUE)
        w4 == [w3 EXCEPT !.modal.requestCounter = @ + 1,
                         !.turn[i].requestId = w3.modal.requestCounter + 1,
                         !.modal.currentAbort = i,
                         !.turn[i].pc = "stream"]
    IN  callChatApiWebSocket(w4, i)

(***************************************************************************)
(* Actions.                                                                *)
(***************************************************************************)
\* Enter, or a click on the button while it reads "Send"
SendMessage(i, input) ==
    /\ turn[i].pc = "idle"
    /\ \A j \in Invocations : j < i => turn[j].pc # "idle"
    /\ Trim(input) # ""
    /\ ~modal.isWaiting
    /\ Becomes(sendMessage(World, i, Trim(input)))

\* `await this.onLog("user", text)` completes; sendMessage runs on to
\* `await this.onStream(...)`
UserLogged(i) ==
    /\ turn[i].pc = "logUser"
    /\ Becomes(sendAfterUserLog(World, i))

\* a click on the button while it reads "Stop"
Stop ==
    /\ modal.isWaiting
    /\ LET w1 == [World EXCEPT !.modal.canceledRequest = modal.requestCounter]
           w2 == setWaiting(w1, FALSE)
       IN  Becomes(abort(w2, w2.modal.currentAbort))

\* WsOpen whose handler does not clear the connect timer
WsOpen_KeepTimer(i) ==
    /\ ws[i].sock \in {"connecting", "canceled"}
    /\ Becomes(IF ws[i].onopen
               THEN [World EXCEPT !.ws[i].sock = "open", !.ws[i].sent = @ + 1]
               ELSE [World EXCEPT !.ws[i].sock = "closing"])

\* the open event of the socket; it may still arrive after close() was called
\* on the connecting socket, and runs socket.onopen only while that is set
WsOpen(i) ==
    /\ ws[i].sock \in {"connecting", "canceled"}
    /\ Becomes(IF ws[i].onopen THEN onopen(World, i)
               ELSE [World EXCEPT !.ws[i].sock = "closing"])

OpenTimeout(i) ==
    /\ ws[i].openTimeout
    /\ Becomes(rejectOnce(socketClose(World, i, NO_CODE), i,
                          "WebSocket connection timed out."))

RECURSIVE InboundTotal(_)
InboundTotal(n) == IF n = 0 THEN 0 ELSE ws[n].inbound + InboundTotal(n - 1)

\* WsMessage whose handler stays in place and does not test `settled`
WsMessage_Unguarded(i, raw) ==
    /\ ws[i].sock \in {"open", "closing"}
    /\ InboundTotal(MaxSends) < MaxFrames
    /\ LET dispatched == TRUE
           w1 == [World EXCEPT !.ws[i].inbound = @ + 1,
                               !.ws[i].errorFrame = @ \/ (dispatched /\ IsErrorUnit(raw))]
       IN  Becomes(IF dispatched THEN applyFrame(w1, i, raw) ELSE w1)

\* one inbound unit arrives; it is dispatched only while onmessage is set
WsMessage(i, raw) ==
    /\ ws[i].sock \in {"open", "closing"}
    /\ InboundTotal(MaxSends) < MaxFrames
    /\ LET dispatched == ws[i].sock = "open" /\ ~ws[i].settled
           w1 == [World EXCEPT !.ws[i].inbound = @ + 1,
                               !.ws[i].errorFrame = @ \/ (dispatched /\ IsErrorUnit(raw))]
       IN  Becomes(IF dispatched THEN applyFrame(w1, i, raw) ELSE w1)

WsError(i) ==
    /\ ws[i].sock \in {"connecting", "open"}
    /\ ~ws[i].settled
    /\ Becomes(rejectOnce([World EXCEPT !.ws[i].sock = "closed"], i,
                          "WebSocket connection failed."))

\* WsClose that treats every close before Done as a failure
WsClose_AlwaysFails(i, code) ==
    /\ ws[i].sock \in {"connecting", "open"}
    /\ ws[i].sock = "connecting" => code # NORMAL_CLOSURE
    /\ ~ws[i].settled
    /\ Becomes(rejectOnce([World EXCEPT !.ws[i].sock = "closed"], i,
                          "WebSocket closed with code " \o ToString(code) \o "."))

WsClose(i, code) ==
    /\ ws[i].sock \in {"connecting", "open"}
    /\ ws[i].sock = "connecting" => code # NORMAL_CLOSURE
    /\ ~ws[i].settled
    /\ LET w1 == [World EXCEPT !.ws[i].sock = "closed"]
       IN  Becomes(IF code = NORMAL_CLOSURE THEN finalizeWithText(w1, i, ws[i].fullText)
                   ELSE IF Len(ws[i].fullText) > 0
                   THEN finalizeWithText(w1, i, ws[i].fullText)
                   ELSE rejectOnce(w1, i, "WebSocket closed with code "
                                          \o ToString(code) \o "."))

\* HttpResponds without the synthetic onChunk call
HttpResponds_NoSyntheticChunk(i, response) ==
    /\ http[i].state = "inflight"
    /\ LET r == callChatApi(response)
           w1 == [World EXCEPT !.http[i].state = "done",
                               !.http[i].ok = r.ok,
                               !.http[i].message = r.message]
       IN  Becomes(IF ~r.ok THEN sendCatch(w1, i, r.error)
                   ELSE sendResolved(w1, i, r.message))

\* the fallback response arrives: callChatApi, then the rest of callChatApiStream
HttpResponds(i, response) ==
    /\ http[i].state = "inflight"
    /\ LET r == callChatApi(response)
           w1 == [World EXCEPT !.http[i].state = "done",
                               !.http[i].ok = r.ok,
                               !.http[i].message = r.message]
       IN  Becomes(IF ~r.ok THEN sendCatch(w1, i, r.error)
                   ELSE IF Len(r.message) > 0
                   THEN sendResolved(onChunk(w1, i, r.message), i, r.message)
                   ELSE sendResolved(w1, i, r.message))

\* `await this.onLog("assistant", finalText)` completes; the finally block runs
AssistantLogged(i) ==
    /\ turn[i].pc = "logAssistant"
    /\ Becomes(sendFinally(appendChatLog(World, "assistant", turn[i].finalText), i))

\* one firing of the typing interval
RevealTick ==
    /\ modal.streamingTypingTimer
    /\ ticks' = ticks + 1
    /\ Advance(tickStreamingTyping(World))

Tick ==
    /\ ticks < MaxTicks
    /\ RevealTick

Next ==
    \/ \E i \in Invocations, input \in UserInputs : SendMessage(i, input)
    \/ \E i \in Invocations : UserLogged(i)
    \/ Stop
    \/ \E i \in Invocations : WsOpen(i)
    \/ \E i \in Invocations : OpenTimeout(i)
    \/ \E i \in Invocations, raw \in InboundUnits : WsMessage(i, raw)
    \/ \E i \in Invocations : WsError(i)
    \/ \E i \in Invocations, code \in CloseCodes : WsClose(i, code)
    \/ \E i \in Invocations, response \in HttpResponses : HttpResponds(i, response)
    \/ \E i \in Invocations : AssistantLogged(i)
    \/ Tick

Spec == Init /\ [][Next]_vars

\* A session in which the user sends one message: the handlers of Next, with
\* sendMessage invoked once, over the whole universe of inbound units and
\* fallback responses.
NextSingle ==
    \/ \E input \in UserInputs : SendMessage(1, input)
    \/ UserLogged(1)
    \/ Stop
    \/ WsOpen(1)
    \/ OpenTimeout(1)
    \/ \E raw \in DecoderUnits : WsMessage(1, raw)
    \/ WsError(1)
    \/ \E code \in CloseCodes : WsClose(1, code)
    \/ \E response \in FallbackResponses : HttpResponds(1, response)
    \/ AssistantLogged(1)
    \/ Tick

SpecSingle == Init /\ [][NextSingle]_vars

(***************************************************************************)
(* The reveal of one streamed message: the session has sent "hi", the      *)
(* socket is open and a plain-text unit of 1..MaxBacklog characters has     *)
(* arrived; from there the typing interval fires without a budget, and      *)
(* further units arrive as in WsMessage.                                    *)
(***************************************************************************)
RECURSIVE Repeat(_, _)
Repeat(c, n) == IF n = 0 THEN "" ELSE c \o Repeat(c, n - 1)

InitWorld ==
    [modal |-> InitModal,
     turn |-> [i \in Invocations |-> InitTurn],
     ws |-> [i \in Invocations |-> InitWs],
     http |-> [i \in Invocations |-> InitHttp],
     dom |-> [i \in Invocations |-> InitDom],
     chatLog |-> <<>>,
     vault |-> SessionVault,
     clock |-> 1]

Streamed(text) ==
    LET w1 == sendMessage(InitWorld, 1, "hi")
        w2 == sendAfterUserLog(w1, 1)
        w3 == onopen(w2, 1)
    IN  applyFrame([w3 EXCEPT !.ws[1].inbound = 1], 1, text)

InitReveal ==
    /\ env = [apiHost |-> TRUE, webSocket |-> TRUE]
    /\ ticks = 0
    /\ \E n \in 1..MaxBacklog :
           LET w == Streamed(Repeat("a", n)) IN
           /\ modal = w.modal
           /\ turn = w.turn
           /\ ws = w.ws
           /\ http = w.http
           /\ dom = w.dom
           /\ chatLog = w.chatLog
           /\ vault = w.vault
           /\ clock = w.clock
           /\ opening = SessionOpening

NextReveal ==
    \/ RevealTick
    \/ \E raw \in InboundUnits : WsMessage(1, raw)

SpecReveal == InitReveal /\ [][NextReveal]_vars

(***************************************************************************)
(* openChatForFolder.  The command reads the clock when it is invoked, at  *)
(* a later second than every earlier invocation.  Each action is the part  *)
(* of the function between two awaits on the vault or on the summary API;  *)
(* its catch clause shows an ErrorModal and ends the command (pc           *)
(* "failed").  The modal that the command opens logs its turns through the *)
(* onLog callback.                                                         *)
(***************************************************************************)
SessionIdle == UNCHANGED <<turn, ws, http, dom, env, ticks>>

\* what a session passes to onLog: a trimmed, non-empty user input, or the
\* final text of the assistant, which can be any text
UserContents == {"hi"}
AssistantContents == {"", "\nhi\n", "a\n## [x] user\nb"}

LogCalls ==
    [role : {"user"}, content : UserContents]
        \cup [role : {"assistant"}, content : AssistantContents]

\* new ChatModal(..., history, ...)
ChatModal(history) ==
    [InitModal EXCEPT !.messages =
        <<[role |-> "system", content |-> CHAT_SYSTEM_PROMPT]>> \o history]

writeSummaryFile(v) ==
    [ensureContextFolder(v) EXCEPT !.context.summary = replaceTextFile(@, SUMMARY)]

\* the command is invoked: collectFilesInFolder and getSnapshotState
OpenChat(files) ==
    /\ opening.pc = "idle"
    /\ opening.opens < MaxOpens
    /\ clock' = clock + 1
    /\ LET snapshotState == getSnapshotState(vault.context.snapshot, files) IN
       opening' = [opening EXCEPT
                      !.opens = @ + 1,
                      !.files = files,
                      !.snapshotState = snapshotState,
                      !.error = snapshotState.error,
                      !.pc = IF snapshotState.error # "" THEN "failed"
                             ELSE IF snapshotState.changed THEN "archive"
                             ELSE IF ~snapshotState.exists THEN "snapshot"
                             ELSE "summary"]
    /\ UNCHANGED <<vault, modal, chatLog>>
    /\ SessionIdle

\* `await this.archiveContextFolder(folder)`
ArchiveContext ==
    /\ opening.pc = "archive"
    /\ vault' = archiveContextFolder(vault, clock)
    /\ opening' = [opening EXCEPT !.pc = "snapshot"]
    /\ UNCHANGED <<modal, chatLog, clock>>
    /\ SessionIdle

\* `await this.ensureContextFolder(folder); await this.writeSnapshot(folder, files)`
WriteSnapshot ==
    /\ opening.pc = "snapshot"
    /\ vault' = writeSnapshot(ensureContextFolder(vault), opening.files)
    /\ opening' = [opening EXCEPT !.pc = "summary"]
    /\ UNCHANGED <<modal, chatLog, clock>>
    /\ SessionIdle

\* ensureContextFolder, ensureArtifactsFolder and readSummaryFile
ReadSummary ==
    /\ opening.pc = "summary"
    /\ vault' = ensureArtifactsFolder(ensureContextFolder(vault))
    /\ opening' = [opening EXCEPT
                      !.pc = IF vault.context.summary.exists THEN "log" ELSE "summarize"]
    /\ UNCHANGED <<modal, chatLog, clock>>
    /\ SessionIdle

\* summarizeFolder ends: it saved a summary and a snapshot, or it showed
\* its own error and the command gives up with a Notice
Summarized(ok) ==
    /\ opening.pc = "summarize"
    /\ vault' = IF ok THEN writeSnapshot(writeSummaryFile(vault), opening.files) ELSE vault
    /\ opening' = [opening EXCEPT !.pc = IF ok THEN "log" ELSE "noSummary"]
    /\ UNCHANGED <<modal, chatLog, clock>>
    /\ SessionIdle

\* getOrCreateChatLog, loadChatHistory and findChatHistory; without a
\* fallback the modal is constructed and opened
OpenLog ==
    /\ opening.pc = "log"
    /\ LET v == getOrCreateChatLog(vault, clock)
           history == loadChatHistory(ChatLogFile(v))
           fallback == IF Len(history) = 0 THEN findChatHistory(v) ELSE <<>>
       IN  /\ vault' = v
           /\ IF Len(fallback) > 0
              THEN /\ opening' = [opening EXCEPT !.pc = "migrate",
                                                 !.entries = fallback,
                                                 !.history = stripTimestamps(fallback)]
                   /\ UNCHANGED <<modal, chatLog>>
              ELSE /\ opening' = [opening EXCEPT !.pc = "opened", !.history = history]
                   /\ modal' = ChatModal(history)
                   /\ UNCHANGED chatLog
    /\ UNCHANGED clock
    /\ SessionIdle

\* `await this.writeChatLog(chatLogPath, fallback.entries)`; the modal is
\* constructed and opened
Migrate ==
    /\ opening.pc = "migrate"
    /\ vault' = writeChatLog(vault, opening.entries, clock)
    /\ opening' = [opening EXCEPT !.pc = "opened", !.entries = <<>>,
                                  !.migrations = @ + 1]
    /\ modal' = ChatModal(opening.history)
    /\ UNCHANGED <<chatLog, clock>>
    /\ SessionIdle

\* the onLog callback of the open modal
OnLog(role, content) ==
    /\ opening.pc = "opened"
    /\ Len(chatLog) < MaxAppends
    /\ Becomes(appendChatLog(World, role, content))

\* the modal, the ErrorModal or the Notice is dismissed
CloseChat ==
    /\ opening.pc \in {"opened", "failed", "noSummary"}
    /\ opening' = [InitOpening EXCEPT !.opens = opening.opens,
                                      !.migrations = opening.migrations]
    /\ modal' = InitModal
    /\ UNCHANGED <<vault, chatLog, clock>>
    /\ SessionIdle

\* the file lists of a folder that is empty or holds the file a.md
OpenFiles == {<<>>, <<[path |-> "a.md", mtime |-> 1]>>}

\* the contexts the command can find: no context folder, or one that
\* holds a snapshot of the lists, with or without a summary and a legacy log
InitVaults(lists) ==
    {[context |-> NoContext, archives |-> <<>>]} \cup
    {[context |-> [EmptyContext EXCEPT !.snapshot = snapshot, !.summary = summary,
                                       !.legacy = legacy],
      archives |-> <<>>] :
        snapshot \in {NoFile} \cup {File(snapshotText(files)) : files \in lists}
                              \cup {File(text) : text \in MalformedSnapshots},
        summary \in {NoFile, File(SUMMARY)},
        legacy \in {NoFile} \cup {File(text) : text \in LegacyLogs}}

InitOpen ==
    /\ modal = InitModal
    /\ turn = [i \in Invocations |-> InitTurn]
    /\ ws = [i \in Invocations |-> InitWs]
    /\ http = [i \in Invocations |-> InitHttp]
    /\ dom = [i \in Invocations |-> InitDom]
    /\ chatLog = <<>>
    /\ env = [apiHost |-> TRUE, webSocket |-> TRUE]
    /\ ticks = 0
    /\ vault \in InitVaults(OpenFiles)
    /\ opening = InitOpening
    /\ clock = 0

NextOpen ==
    \/ \E files \in OpenFiles : OpenChat(files)
    \/ ArchiveContext
    \/ WriteSnapshot
    \/ ReadSummary
    \/ \E ok \in BOOLEAN : Summarized(ok)
    \/ OpenLog
    \/ Migrate
    \/ \E call \in LogCalls : OnLog(call.role, call.content)
    \/ CloseChat

SpecOpen == InitOpen /\ [][NextOpen]_vars

(***************************************************************************)
(* The snapshot evaluation alone: the command is invoked on a folder with  *)
(* any file list, over a context that holds any snapshot.                  *)
(***************************************************************************)
InitSnapshot ==
    /\ modal = InitModal
    /\ turn = [i \in Invocations |-> InitTurn]
    /\ ws = [i \in Invocations |-> InitWs]
    /\ http = [i \in Invocations |-> InitHttp]
    /\ dom = [i \in Invocations |-> InitDom]
    /\ chatLog = <<>>
    /\ env = [apiHost |-> TRUE, webSocket |-> TRUE]
    /\ ticks = 0
    /\ vault \in InitVaults(FileLists)
    /\ opening = InitOpening
    /\ clock = 0

NextSnapshot == \E files \in FileLists : OpenChat(files)

SpecSnapshot == InitSnapshot /\ [][NextSnapshot]_vars

(***************************************************************************)
(* The artifact extraction of one response: the session has sent "hi", the *)
(* socket is open and a plain-text unit of up to MaxLines lines has        *)
(* arrived; a Done unit resolves the stream with that text.                *)
(***************************************************************************)
ArtifactLines ==
    {ARTIFACTS_MARKER, "- /artifacts/a.pdf", " - /artifacts/b.csv ", "", "Extra",
     "- artifacts/x"}

ArtifactTexts ==
    {JoinLines(lines) : lines \in UNION {[1..n -> ArtifactLines] : n \in 1..MaxLines}}

InitArtifacts ==
    /\ env = [apiHost |-> TRUE, webSocket |-> TRUE]
    /\ ticks = 0
    /\ opening = SessionOpening
    /\ \E text \in ArtifactTexts :
           LET w == Streamed(text) IN
           /\ modal = w.modal
           /\ turn = w.turn
           /\ ws = w.ws
           /\ http = w.http
           /\ dom = w.dom
           /\ chatLog = w.chatLog
           /\ vault = w.vault
           /\ clock = w.clock

NextArtifacts == \E raw \in {RawDoneType, RawSentinel} : WsMessage(1, raw)

SpecArtifacts == InitArtifacts /\ [][NextArtifacts]_vars

(***************************************************************************)
(* The session of one modal up to and after its close: the handlers of     *)
(* NextSingle, with the input and the button available only while the      *)
(* modal is open, the close of the modal (ChatModal.onClose), and a log     *)
(* append of the user turn that fails.  Continuations of a request that     *)
(* was outstanding at the close still run afterwards.                       *)
(***************************************************************************)
\* ChatModal.onClose: the handler, then the continuations that abort() made
\* runnable
onClose(w) ==
    abort(resetStreamingState([w EXCEPT !.modal.currentAbort = 0]), w.modal.currentAbort)

Close ==
    /\ opening.pc = "opened"
    /\ opening' = [opening EXCEPT !.pc = "closed"]
    /\ LET w == onClose(World) IN
       /\ modal' = w.modal
       /\ turn' = w.turn
       /\ ws' = w.ws
       /\ http' = w.http
       /\ dom' = w.dom
       /\ chatLog' = w.chatLog
       /\ vault' = w.vault
       /\ clock' = w.clock
    /\ UNCHANGED <<env, ticks>>

\* a rejection of onLog that is swallowed: sendMessage goes on to the request
UserLogFailed_Swallowed(i) ==
    /\ turn[i].pc = "logUser"
    /\ Becomes([sendAfterUserLog(World, i) EXCEPT !.chatLog = chatLog, !.vault = vault])

\* `await this.onLog("user", text)` rejects: sendMessage ends with that error
UserLogFailed(i) ==
    /\ turn[i].pc = "logUser"
    /\ Becomes([World EXCEPT !.turn[i].pc = "logFailed"])

ModalOpen == opening.pc = "opened"

NextSession ==
    \/ ModalOpen /\ \E input \in UserInputs : SendMessage(1, input)
    \/ UserLogged(1)
    \/ UserLogFailed(1)
    \/ ModalOpen /\ Stop
    \/ WsOpen(1)
    \/ OpenTimeout(1)
    \/ \E raw \in DecoderUnits : WsMessage(1, raw)
    \/ WsError(1)
    \/ \E code \in CloseCodes : WsClose(1, code)
    \/ \E response \in FallbackResponses : HttpResponds(1, response)
    \/ AssistantLogged(1)
    \/ Tick
    \/ Close

SpecSession == Init /\ [][NextSession]_vars

(***************************************************************************)
(* Claims.                                                                 *)
(***************************************************************************)
Streaming(i) == turn[i].pc = "stream"

ChunkCallback(i) == turn'[i].chunkCalls # turn[i].chunkCalls

\* C1: for every turn that completes successfully, the concatenation of the
\* chunk texts passed to onChunk (the closure's fullText) equals the final
\* text appended to the history, logged and rendered.
C1_ChunksEqualFinalText ==
    \A i \in Invocations :
        turn[i].result = "appended" => turn[i].finalText = turn[i].fullText

\* C2: at most one request is outstanding (issued, not settled, not canceled)
\* at any time.
C2_SingleFlight ==
    \A i, j \in Invocations :
        (Streaming(i) /\ ~turn[i].aborted /\ Streaming(j) /\ ~turn[j].aborted) => i = j

\* C3: a turn canceled while its request was outstanding is never appended to
\* the history or the log as an assistant turn.
C3_CanceledNeverAppended ==
    [][\A i \in Invocations :
          (Streaming(i) /\ turn[i].aborted) => turn'[i].result # "appended"]_vars

\* C4: a chunk callback of a canceled request leaves the reveal state alone
\* once a newer request has started.
C4_LateChunkDiscarded ==
    [][\A i \in Invocations :
          (/\ turn[i].aborted
           /\ ChunkCallback(i)
           /\ \E j \in Invocations : turn[j].requestId > turn[i].requestId)
          => /\ modal'.streamingRenderTarget = modal.streamingRenderTarget
             /\ modal'.streamingRenderText = modal.streamingRenderText
             /\ modal'.streamingTypingProgress = modal.streamingTypingProgress]_vars

\* C5: cancellation during the WebSocket attempt (connecting or streaming)
\* closes the socket with code 1000, makes send fail with the cancellation
\* error, and no fallback request is ever issued for that attempt.
C5_CancelNoFallback ==
    /\ [][\A i \in Invocations :
            (/\ ws[i].sock \in {"connecting", "open"}
             /\ ~ws[i].settled
             /\ ~turn[i].aborted
             /\ turn'[i].aborted)
            => /\ ws'[i].closeCode = NORMAL_CLOSURE
               /\ ws'[i].outcome = "rejected"
               /\ turn'[i].outcome = "rejected"
               /\ turn'[i].error = "Request aborted"
               /\ http'[i].count = 0]_vars
    /\ [](\A i \in Invocations :
            (ws[i].outcome = "rejected" /\ ws[i].error = "Request aborted")
            => http[i].count = 0)

C5_Witness ==
    \E i \in Invocations :
        /\ turn[i].aborted
        /\ ws[i].outcome = "rejected"
        /\ ws[i].fullText # ""
        /\ ws[i].closeCode = NORMAL_CLOSURE
        /\ turn[i].pc = "done"

WsFailedNotCanceled(i) ==
    ws[i].outcome = "rejected" /\ ws[i].error # "Request aborted"

\* the policy of C6 without the comparison of the two bodies
FallbackIssuedOnce ==
    \A i \in Invocations :
        env.apiHost =>
            /\ WsFailedNotCanceled(i) => http[i].count = 1
            /\ (~env.webSocket /\ turn[i].pc \notin {"idle", "logUser"})
                   => http[i].count = 1
            /\ (http[i].state = "done" /\ ~http[i].ok)
                   => /\ http[i].count = 1
                      /\ turn[i].pc = "done"
                      /\ turn[i].outcome = "rejected"

\* C6: every failure of the WebSocket attempt other than caller cancellation
\* leads to exactly one HTTP request carrying the same summary and messages
\* as the WebSocket envelope; if that request fails, send fails for good.
C6_FallbackOnceSameBody ==
    /\ FallbackIssuedOnce
    /\ \A i \in Invocations :
           (env.apiHost /\ WsFailedNotCanceled(i)) => http[i].payload = ws[i].payload

FallbackSucceeds(i) ==
    http[i].state = "inflight" /\ http'[i].state = "done" /\ http'[i].ok

FallbackResolves(i) ==
    /\ turn'[i].fullText = turn[i].fullText \o http'[i].message
    /\ turn'[i].outcome = "resolved"
    /\ turn'[i].response = http'[i].message

\* C7 as stated: whenever the fallback request succeeds, its text is delivered
\* through exactly one onChunk call and send resolves with that text.
C7_ExactlyOneChunk ==
    [][\A i \in Invocations :
          FallbackSucceeds(i)
          => /\ turn'[i].chunkCalls = turn[i].chunkCalls + 1
             /\ FallbackResolves(i)]_vars

\* C7 amended: whenever the fallback request succeeds, send resolves with its
\* text; a non-empty text is delivered through exactly one onChunk call, an
\* empty text through none.
C7_OneChunkUnlessEmpty ==
    [][\A i \in Invocations :
          FallbackSucceeds(i)
          => /\ turn'[i].chunkCalls =
                    turn[i].chunkCalls + (IF http'[i].message = "" THEN 0 ELSE 1)
             /\ FallbackResolves(i)]_vars

C7_Witness ==
    \E i \in Invocations :
        /\ http[i].state = "done"
        /\ http[i].ok
        /\ http[i].message = "ok"
        /\ turn[i].chunkCalls = 1
        /\ turn[i].response = "ok"
        /\ turn[i].result = "appended"

Dispatched(i, raw) == ws[i].sock = "open" /\ ~ws[i].settled /\ WsMessage(i, raw)

C9_ErrorFrameNoFallback ==
    \A i \in Invocations : ws[i].errorFrame => http[i].count = 0

ResolvedByDone(i) == ws[i].outcome = "resolved" /\ ws[i].closeCode = NORMAL_CLOSURE

\* C10: a Done frame or sentinel resolves send with exactly the text
\* accumulated so far and closes the socket with code 1000; onChunk is called
\* neither for that frame nor for anything that arrives afterwards.
C10_DoneResolvesAccumulated ==
    /\ [][\A i \in Invocations, raw \in InboundUnits :
            (IsDoneUnit(raw) /\ Dispatched(i, raw))
            => /\ ws'[i].outcome = "resolved"
               /\ ws'[i].message = ws[i].fullText
               /\ turn'[i].outcome = "resolved"
               /\ turn'[i].response = ws[i].fullText
               /\ ws'[i].closeCode = NORMAL_CLOSURE
               /\ turn'[i].chunkCalls = turn[i].chunkCalls]_vars
    /\ [][\A i \in Invocations :
            ResolvedByDone(i)
            => /\ turn'[i].chunkCalls = turn[i].chunkCalls
               /\ turn'[i].fullText = turn[i].fullText
               /\ turn'[i].response = turn[i].response]_vars

C10_Witness ==
    \E i \in Invocations :
        /\ ResolvedByDone(i)
        /\ ws[i].message = "ab"
        /\ turn[i].response = "ab"
        /\ ws[i].inbound = 2

\* C11: when the socket closes before any Done, a close with code 1000 and
\* some accumulated text resolves send with that text, and a close with any
\* other code and no accumulated text fails the attempt, which then goes to
\* the HTTP fallback.
C11_CloseBeforeDone ==
    [][\A i \in Invocations, code \in CloseCodes :
          WsClose(i, code)
          => /\ (code = NORMAL_CLOSURE /\ ws[i].fullText # "")
                    => /\ ws'[i].outcome = "resolved"
                       /\ ws'[i].message = ws[i].fullText
                       /\ turn'[i].outcome = "resolved"
                       /\ turn'[i].response = ws[i].fullText
                       /\ http'[i].count = 0
             /\ (code # NORMAL_CLOSURE /\ ws[i].fullText = "")
                    => /\ ws'[i].outcome = "rejected"
                       /\ turn'[i].outcome = "pending"
                       /\ http'[i].state = "inflight"
                       /\ http'[i].count = 1]_vars

C11_Witness ==
    \E i \in Invocations :
        /\ ws[i].sock = "closed"
        /\ ws[i].closeCode = 0
        /\ ws[i].outcome = "resolved"
        /\ ws[i].message = "ab"
        /\ turn[i].response = "ab"

C11_WitnessFailure ==
    \E i \in Invocations :
        /\ ws[i].sock = "closed"
        /\ ws[i].error = "WebSocket closed with code 1006."
        /\ ws[i].fullText = ""
        /\ http[i].count = 1

TimedOut(i) == ws[i].error = "WebSocket connection timed out."

\* C12: the connect timeout fails a WebSocket attempt only while the socket is
\* still connecting: it then tears the socket down and the attempt fails over
\* to the fallback; once the socket has opened no timer is pending for the
\* attempt and no tick of the typing interval settles it.
C12_TimeoutOnlyConnecting ==
    /\ [][\A i \in Invocations :
            OpenTimeout(i)
            => /\ ws[i].sock = "connecting"
               /\ ws'[i].sock = "canceled"
               /\ TimedOut(i)'
               /\ ws'[i].outcome = "rejected"
               /\ http'[i].count = 1]_vars
    /\ [](\A i \in Invocations :
            /\ ws[i].sock = "open" => ~ws[i].openTimeout
            /\ TimedOut(i) => ws[i].sent = 0)
    /\ [][\A i \in Invocations :
            (ws[i].sock = "open" /\ ~ws[i].settled /\ ticks' # ticks)
            => ws'[i] = ws[i]]_vars

C12_Witness ==
    \E i \in Invocations :
        /\ TimedOut(i)
        /\ ws[i].sock \in {"canceled", "closing"}
        /\ ws[i].closeCode = NO_CODE
        /\ http[i].count = 1

\* C13: per WebSocket attempt the envelope {summary, messages} is sent at most
\* once and only by the open event of a socket that is still connecting and
\* not settled; an open event that arrives after the attempt was canceled or
\* timed out while connecting sends nothing.
C13_EnvelopeOnce ==
    /\ [](\A i \in Invocations : ws[i].sent <= 1)
    /\ [][\A i \in Invocations :
            ws'[i].sent # ws[i].sent
            => /\ WsOpen(i)
               /\ ws[i].sock = "connecting"
               /\ ~ws[i].settled
               /\ ws'[i].sent = 1
               /\ ws[i].payload.summary = SUMMARY
               /\ ws[i].payload.messages =
                      stripTimestamps(SubSeq(modal.messages, 1,
                                             Len(ws[i].payload.messages)))
               /\ Len(ws[i].payload.messages) >= 2]_vars
    /\ [][\A i \in Invocations :
            (ws[i].sock = "canceled" /\ WsOpen(i)) => ws'[i].sent = 0]_vars

C13_Witness ==
    \E i \in Invocations :
        /\ ws[i].sock = "closing"
        /\ ws[i].settled
        /\ ws[i].sent = 0
        /\ ws[i].error \in {"Request aborted", "WebSocket connection timed out."}

\* a unit with no recognized shape: not JSON, JSON that is not an object, or
\* an object with none of the known fields (the sentinels are Done markers)
Unrecognized(raw) ==
    LET p == JsonParse(raw) IN
    /\ ~IsDoneUnit(raw)
    /\ \/ p.kind \in {"fail", "primitive"}
       \/ p.kind = "object" /\ p.f = NoFields

DeliversChunk(i, text) ==
    /\ ws'[i].fullText = ws[i].fullText \o text
    /\ turn'[i].fullText = turn[i].fullText \o text
    /\ turn'[i].chunkCalls = turn[i].chunkCalls + 1
    /\ ~ws'[i].settled

\* C14: decoding is total: every inbound unit that fails JSON parsing, or
\* parses as JSON without a recognized shape, is delivered to onChunk as
\* literal chunk text.
C14_DecodingTotal ==
    [][\A i \in Invocations, raw \in DecoderUnits :
          (Unrecognized(raw) /\ Dispatched(i, raw)) => DeliversChunk(i, raw)]_vars

ChunkField(raw) ==
    LET f == JsonParse(raw).f IN IF f.text.k = "string" THEN f.text.s ELSE ""

IsLiteralUnit(raw) ==
    LET p == JsonParse(raw) IN
    /\ p.kind = "object"
    /\ p.f.type \notin {JStr("error"), JStr("chunk"), JStr("done")}
    /\ p.f.done # JTrue

FirstNonEmpty(f) ==
    IF f.message.k = "string" /\ f.message.s # "" THEN f.message.s
    ELSE IF f.response.k = "string" /\ f.response.s # "" THEN f.response.s
    ELSE IF f.content.k = "string" /\ f.content.s # "" THEN f.content.s
    ELSE IF f.text.k = "string" /\ f.text.s # "" THEN f.text.s
    ELSE ""

\* C16: for a structured frame that is neither error, chunk nor done, the
\* chunk text is the first non-empty string among message, response, content
\* and text: an empty field is skipped in favour of a later non-empty one.
C16_FirstNonEmptyField ==
    [][\A i \in Invocations, raw \in DecoderUnits :
          (/\ IsLiteralUnit(raw)
           /\ FirstNonEmpty(JsonParse(raw).f) # ""
           /\ Dispatched(i, raw))
          => DeliversChunk(i, FirstNonEmpty(JsonParse(raw).f))]_vars

\* C17: for one reveal target the number of revealed characters shown in the
\* message body never decreases over ticks and chunk arrivals, also when the
\* reveal had caught up, the timer had gone idle and more text arrives.
C17_RevealMonotone ==
    [][\A b \in Invocations :
          (/\ modal.streamingRenderTarget = b
           /\ modal'.streamingRenderTarget = b
           /\ dom[b].content = "text"
           /\ dom'[b].content = "text")
          => Len(dom'[b].text) >= Len(dom[b].text)]_vars

\* C18: the revealed character count is at most the length of the current
\* reveal target text in every reachable state, also after the target text
\* was replaced by an error message.
C18_RevealedWithinTarget ==
    modal.streamingTypingProgress <= Len(modal.streamingRenderText)

\* C19: once the target text has stopped growing, the whole text is revealed
\* after at most STREAM_TYPING_CATCHUP_WINDOW ticks, whatever the backlog.
C19_CatchupWithinWindow ==
    (ws[1].inbound = 1 /\ ticks >= STREAM_TYPING_CATCHUP_WINDOW)
        => dom[1].text = modal.streamingRenderText

\* the step in which sendMessage calls finalizeStreamingMessage for turn i
FinalizeRequested(i) == turn[i].result # "appended" /\ turn'[i].result = "appended"

\* the typing interval runs when queueFinalize is called: it ran before the
\* step, or the chunk callback of the same step started it
RevealInProgress(i) == modal.streamingTypingTimer \/ ChunkCallback(i)

FinalRendered(b) == dom[b].content = "markdown"

\* C20: a finalize request is applied at once when no reveal is in progress,
\* and is queued otherwise; the final rendering replaces the body either in
\* that immediate case or at a tick at which the revealed count has reached
\* the length of the target text, never while it is still below it.
C20_FinalizeAfterReveal ==
    /\ [][\A i \in Invocations :
            FinalizeRequested(i)
            => IF RevealInProgress(i)
               THEN /\ ~FinalRendered(i)'
                    /\ modal'.streamingTypingTimer
                    /\ modal'.streamingFinalizeTarget =
                           [body |-> i, text |-> turn'[i].finalText]
               ELSE /\ FinalRendered(i)'
                    /\ dom'[i].text = turn'[i].finalText]_vars
    /\ [][\A b \in Invocations :
            (~FinalRendered(b) /\ FinalRendered(b)')
            => \/ FinalizeRequested(b) /\ ~RevealInProgress(b)
               \/ /\ ticks' # ticks
                  /\ modal.streamingFinalizeTarget.body = b
                  /\ dom'[b].text = modal.streamingFinalizeTarget.text
                  /\ modal.streamingTypingProgress >= Len(modal.streamingRenderText)]_vars

C20_Witness ==
    \E b \in Invocations :
        /\ FinalRendered(b)
        /\ dom[b].text = "ab"
        /\ turn[b].result = "appended"
        /\ modal.streamingFinalizeTarget = NoFinalize
        /\ ticks = 2

(***************************************************************************)
(* Chat log store and folder-open claims.                                  *)
(***************************************************************************)
\* the (role, content) sequence that loadChatHistory reads from the log
ParsedLog(v) == loadChatHistory(ChatLogFile(v))

\* C21: parsing a new log to which the session appended entries yields the
\* (role, content) sequence that was appended, whatever the contents.
C21_AppendRoundTrip == ParsedLog(vault) = chatLog

LogText(v) == ChatLogFile(v).text

\* the active log holds what a migration of the entries wrote at some
\* earlier reading of the clock
MigratedBefore(entries) ==
    \E t \in 0..(clock - 1) : LogText(vault) = writeChatLogText(entries, t)

\* C22: migrating a legacy log again, at a later time, leaves the markdown
\* document as the first migration wrote it.
C22_MigrationIdempotent ==
    [][(Migrate /\ MigratedBefore(opening.entries))
           => LogText(vault') = LogText(vault)]_vars

\* C23: a migration does not give the current time to an entry: neither a
\* fallback entry nor a header of the markdown it writes carries the
\* reading of the clock.
C23_NoTimestampInvented ==
    [][Migrate =>
        /\ \A k \in 1..Len(opening.entries) :
               opening.entries[k].timestamp # toISOString(clock)
        /\ ~Includes(LogText(vault'), "[" \o toISOString(clock) \o "]")]_vars

\* C24: the rewrite of the active log from a legacy log happens once; no
\* later open migrates again.
C24_MigrationOneTime == opening.migrations <= 1

\* C25: the system prompt is the only system message of a session's
\* history, and the log holds user and assistant entries only.
C25_OnlySystemPrompt ==
    /\ \A k \in 2..Len(modal.messages) : modal.messages[k].role \in TurnRoles
    /\ \A k \in 1..Len(ParsedLog(vault)) : ParsedLog(vault)[k].role \in TurnRoles

IsPrefix(a, b) == Len(a) <= Len(b) /\ SubSeq(b, 1, Len(a)) = a

\* C26: every step leaves the entries parsed from the active log a prefix
\* of the entries parsed afterwards, and the text of the log is replaced,
\* instead of extended, only when no entry parses from it.
C26_AppendOnly ==
    [][ChatLogFile(vault') # ChatLogFile(vault)
          => /\ IsPrefix(loadChatEntries(ChatLogFile(vault)),
                         loadChatEntries(ChatLogFile(vault')))
             /\ ~StartsWith(LogText(vault'), LogText(vault))
                    => Len(loadChatEntries(ChatLogFile(vault))) = 0]_vars

C26_Witness ==
    /\ opening.migrations = 1
    /\ Len(chatLog) = 1
    /\ Len(ParsedLog(vault)) = 3
    /\ ParsedLog(vault)[3] = chatLog[1]

\* C27: no snapshot and no log, however malformed, makes the command fail.
C27_OpenNeverFails == opening.pc # "failed"

\* the comparison of section 4.5 on a stored snapshot S and current files C
SnapshotDiffers(S, C) ==
    \/ PathsOf(S) # PathsOf(C)
    \/ \E j \in 1..Len(S), k \in 1..Len(C) :
           S[j].path = C[k].path /\ S[j].mtime # C[k].mtime

\* C28: for a stored snapshot S and current files C, changed is true
\* exactly when the path sets differ or some path has another mtime.
C28_ChangedIffDiffers ==
    (opening.pc # "idle" /\ SnapshotJson(vault.context.snapshot.text).kind = "snapshot"
        /\ vault.context.snapshot.exists)
        => /\ opening.snapshotState.exists
           /\ opening.snapshotState.changed
                  <=> SnapshotDiffers(SnapshotJson(vault.context.snapshot.text).files,
                                      opening.files)

\* same paths in another order: unchanged
C28_Witness ==
    /\ opening.pc = "summary"
    /\ Len(opening.files) = 2
    /\ SnapshotJson(vault.context.snapshot.text).files # opening.files

\* same paths, one mtime differs: changed
C28_WitnessChanged ==
    /\ opening.pc = "archive"
    /\ Len(opening.files) = 2
    /\ PathsOf(SnapshotJson(vault.context.snapshot.text).files) = PathsOf(opening.files)

C29_WitnessNoSnapshot ==
    /\ opening.pc = "summary"
    /\ opening.snapshotState = NoSnapshotState
    /\ vault.archives = <<>>
    /\ vault.context.snapshot = File(snapshotText(opening.files))

\* the bullet of section 4.6: `- /artifacts/<token>`, trimmed
IsBullet(line) ==
    LET trimmed == Trim(line) IN
    /\ StartsWith(trimmed, "- " \o ARTIFACTS_PREFIX)
    /\ Len(trimmed) > Len("- " \o ARTIFACTS_PREFIX)
    /\ \A k \in 1..Len(trimmed) : k > 2 => ~IsSpace(SubSeq(trimmed, k, k))

\* the bullets of lines[k..] up to the first line that is not a bullet
RECURSIVE BulletBlock(_, _)
BulletBlock(lines, k) ==
    IF k > Len(lines) \/ ~IsBullet(lines[k]) THEN <<>>
    ELSE <<SubSeq(Trim(lines[k]), 3, Len(Trim(lines[k])))>> \o BulletBlock(lines, k + 1)

\* section 4.6: the bullets that follow the first marker line
SectionArtifacts(text) ==
    LET lines == SplitLines(text)
        markers == {k \in 1..Len(lines) : Trim(lines[k]) = ARTIFACTS_MARKER}
    IN  IF markers = {} THEN <<>>
        ELSE BulletBlock(lines, (CHOOSE k \in markers : \A j \in markers : k <= j) + 1)

\* C30: the artifact paths of a response are the bullets that follow the
\* marker line up to the first blank or non-matching line; none without a
\* marker.
C30_ArtifactBlock ==
    turn[1].outcome = "resolved"
        => turn[1].artifactPaths = SectionArtifacts(turn[1].response)

(***************************************************************************)
(* Session close, cancellation and failure claims.                         *)
(***************************************************************************)
\* C31: after the modal closed, no step appends an assistant turn for a
\* request that was outstanding when its controller was aborted, whichever
\* transport it is using.
C31_ClosedNeverAppended ==
    [][\A i \in Invocations :
          (opening.pc = "closed" /\ Streaming(i) /\ turn[i].aborted)
              => /\ turn'[i].result # "appended"
                 /\ modal'.messages = modal.messages]_vars

\* API doc 5.3.3: the first of message, response, content that is a
\* non-empty string, or "" when there is none
DocumentedMessage(json) ==
    IF json.message.k = "string" /\ json.message.s # "" THEN json.message.s
    ELSE IF json.response.k = "string" /\ json.response.s # "" THEN json.response.s
    ELSE IF json.content.k = "string" /\ json.content.s # "" THEN json.content.s
    ELSE ""

\* C32: a successful fallback response that has a non-empty string among
\* message, response, content resolves the request with the first of them,
\* in that order.
C32_FirstNonEmptyField ==
    [][\A response \in FallbackResponses :
          (HttpResponds(1, response) /\ requestJson(response).ok
              /\ DocumentedMessage(response.json) # "")
          => /\ http'[1].ok
             /\ http'[1].message = DocumentedMessage(response.json)]_vars

UserEntry(i) == [role |-> "user", content |-> turn[i].text]

\* C33: the request counter is incremented and a transport is opened only by
\* the step in which the log append of the user turn completes, for a turn
\* whose message is already in the history; a turn whose log append failed
\* has no request.
C33_LogBeforeRequest ==
    [][/\ \A i \in Invocations :
            (turn'[i].requestId # turn[i].requestId
                \/ (turn[i].requestId = 0
                       /\ (ws'[i].sock # "none" \/ http'[i].state # "none")))
            => /\ turn[i].pc = "logUser"
               /\ modal.requestCounter = turn'[i].requestId - 1
               /\ \E k \in 2..Len(modal.messages) : modal.messages[k] = UserEntry(i)
               /\ chatLog' = Append(chatLog, UserEntry(i))
               /\ ParsedLog(vault') = ParsedLog(vault) \o <<UserEntry(i)>>
       /\ \A i \in Invocations :
            turn'[i].pc = "logFailed"
            => /\ turn'[i].requestId = 0
               /\ ws'[i].sock = "none"
               /\ http'[i].state = "none"
               /\ modal'.requestCounter = modal.requestCounter
               /\ ~modal'.isWaiting]_vars

C33_Witness ==
    /\ turn[1].pc = "logFailed"
    /\ modal.messages[Len(modal.messages)] = UserEntry(1)
    /\ chatLog = <<>>

\* C34: a finalize request that has not been applied yet is still queued for
\* its body with the typing interval running, so that a later tick applies
\* it; once the interval has stopped or the queue was cleared, no tick
\* applies it any more.
C34_FinalizeStaysQueued ==
    \A i \in Invocations :
        (turn[i].result = "appended" /\ ~FinalRendered(i))
            => /\ modal.streamingTypingTimer
               /\ modal.streamingFinalizeTarget.body = i

\* C35: the step in which the finally block of a canceled request runs
\* leaves the waiting flag, the canceled-request marker and the abort handle
\* as they are when a newer request is outstanding, and that newer request
\* keeps the session waiting with its own abort handle.
C35_FinallyOwnRequest ==
    [][\A i, j \in Invocations :
          (/\ turn[i].pc # "done" /\ turn'[i].pc = "done"
           /\ turn[i].requestId # 0 /\ turn[i].aborted
           /\ turn[j].requestId > turn[i].requestId
           /\ Streaming(j) /\ turn'[j].pc = "stream"
           /\ modal.isWaiting /\ modal.currentAbort = j)
          => /\ modal'.isWaiting
             /\ modal'.currentAbort = j
             /\ modal'.canceledRequest = modal.canceledRequest]_vars

\* C36: once a WebSocket attempt has settled, its outcome, its result and
\* its accumulated text stay as they are, whatever event of its socket
\* arrives, and the chunk callback is called again only for the text of the
\* fallback response.
C36_SettledOnce ==
    [][\A i \in Invocations :
          ws[i].settled
          => /\ ws'[i].settled
             /\ ws'[i].outcome = ws[i].outcome
             /\ ws[i].outcome \in {"resolved", "rejected"}
             /\ ws'[i].message = ws[i].message
             /\ ws'[i].error = ws[i].error
             /\ ws'[i].fullText = ws[i].fullText
             /\ ChunkCallback(i) => (http[i].state = "inflight" /\ http'[i].state = "done")
             /\ turn[i].outcome # "pending" => turn'[i].outcome = turn[i].outcome]_vars

\* two units arrived on a socket whose attempt a done unit resolved with the
\* empty text: the socket is closing and the turn is appended
C36_Witness ==
    /\ ws[1].settled
    /\ ws[1].outcome = "resolved"
    /\ ws[1].sock = "closing"
    /\ ws[1].inbound = 2
    /\ ws[1].fullText = ""
    /\ turn[1].chunkCalls = 0
    /\ turn[1].result = "appended"

\* C37: when send fails for good, the history is the initial history
\* followed by the user turn of that send and the chat log holds that user
\* turn only, in memory and parsed from the file: no assistant turn is
\* recorded; unless the failure happens in the step that logs the user turn,
\* that step changes neither history nor log.  The session is idle
\* afterwards: not waiting, no abort handle, no canceled-request marker.
C37_FailureKeepsUserTurn ==
    [][\A i \in Invocations :
          (turn[i].outcome = "pending" /\ turn'[i].outcome = "rejected")
          => /\ modal'.messages = Append(InitModal.messages, UserEntry(i))
             /\ chatLog' = <<UserEntry(i)>>
             /\ ParsedLog(vault') = <<UserEntry(i)>>
             /\ turn[i].pc = "stream"
                    => (modal'.messages = modal.messages /\ chatLog' = chatLog
                            /\ vault' = vault)
             /\ turn'[i].result \in {"error", "dropped"}
             /\ turn'[i].pc = "done"
             /\ ~modal'.isWaiting
             /\ modal'.currentAbort = 0
             /\ modal'.canceledRequest = 0]_vars

\* the WebSocket attempt failed, the one fallback request failed, and the
\* error is shown: the log holds the user turn only and the session is idle
C37_Witness ==
    /\ turn[1].result = "error"
    /\ ws[1].outcome = "rejected"
    /\ http[1].state = "done"
    /\ ~http[1].ok
    /\ http[1].count = 1
    /\ chatLog = <<UserEntry(1)>>
    /\ modal.messages[Len(modal.messages)] = UserEntry(1)
    /\ ~modal.isWaiting

\* C38: while the chat is open after a folder-open that archived the prior
\* context, the active log recorded in the chat state and chosen by
\* getLatestChatLogPath is a file of the fresh context folder, not of an
\* archive.
C38_ActiveLogInFreshContext ==
    (opening.pc = "opened" /\ opening.snapshotState.changed)
        => /\ vault.context.log.exists
           /\ IsPrefix(CONTEXT_DIR \o "/", getLatestChatLogPath(vault))
           /\ vault.context.state.text = getLatestChatLogPath(vault)

EmptyAssistantEntry == [role |-> "assistant", content |-> ""]

\* C39: a close with code 1000 on an attempt that has neither seen a done
\* unit nor accumulated text resolves send with the empty message and issues
\* no fallback request; the session pushes an assistant turn with empty
\* content to the history in that step, and the step that completes the
\* assistant log appends that empty turn to the chat log and its entry text
\* to the log file.
C39_NormalCloseEmptyTurn ==
    [][\A i \in Invocations :
          /\ (WsClose(i, NORMAL_CLOSURE) /\ ws[i].fullText = "")
                 => /\ ws'[i].outcome = "resolved"
                    /\ ws'[i].message = ""
                    /\ turn'[i].outcome = "resolved"
                    /\ turn'[i].response = ""
                    /\ http'[i].state = "none"
                    /\ http'[i].count = 0
                    /\ turn'[i].result = "appended"
                    /\ turn'[i].finalText = ""
                    /\ modal'.messages = Append(modal.messages, EmptyAssistantEntry)
                    /\ turn'[i].pc = "logAssistant"
          /\ (AssistantLogged(i) /\ turn[i].finalText = "")
                 => /\ chatLog' = Append(chatLog, EmptyAssistantEntry)
                    /\ LogText(vault') = LogText(vault)
                           \o EntryText(toISOString(clock), "assistant", "")]_vars

\* the attempt was resolved by a close with code 1000 and no text, no
\* fallback was issued, and the empty assistant turn is in the history and
\* in the log
C39_Witness ==
    /\ ws[1].sock = "closed"
    /\ ws[1].outcome = "resolved"
    /\ ws[1].fullText = ""
    /\ http[1].count = 0
    /\ turn[1].pc = "done"
    /\ modal.messages[Len(modal.messages)] = EmptyAssistantEntry
    /\ chatLog = <<UserEntry(1), EmptyAssistantEntry>>
    /\ EndsWith(LogText(vault), "assistant\n\n\n")

\* C40: a send that ended in failure without its abort signal having been
\* fired is shown as an error and its message body stays in the chat; only
\* a send whose signal was fired is discarded as canceled.
C40_OnlyCallerCancels ==
    \A i \in Invocations :
        (turn[i].outcome = "rejected" /\ ~turn[i].aborted)
            => /\ turn[i].result = "error"
               /\ dom[i].attached

====
